---- MODULE Spec2Model ----
(***************************************************************************)
(* Model of 2_Scriptes/preprocess_livestock_data_co2e_lsu_v3e.py: the      *)
(* batch pipeline main() that turns a wide FAOSTAT livestock table into    *)
(* the long table of Stocks, CH4_CO2e, N2O_CO2e, Total_CO2e and LSU rows   *)
(* with appended region totals.                                            *)
(*                                                                         *)
(* Text is a sequence of one-character strings, so that strip, lower,      *)
(* substring tests, the regular expressions and the replacement are        *)
(* computed character by character as the Python code computes them.       *)
(* Numbers are exact fixed point: a table Value is an integer count of     *)
(* 1/Unit, which represents the GWP factors (one decimal), the dairy       *)
(* fraction (a percentage) and the LSU weights (two decimals) exactly.     *)
(***************************************************************************)
EXTENDS Integers, Sequences, FiniteSets, TLC

\* ------------------------------------------------------------ text helpers
UpperChars == <<"A","B","C","D","E","F","G","H","I","J","K","L","M","N","O","P","Q","R","S","T","U","V","W","X","Y","Z">>
LowerChars == <<"a","b","c","d","e","f","g","h","i","j","k","l","m","n","o","p","q","r","s","t","u","v","w","x","y","z">>
DigitChars == <<"0","1","2","3","4","5","6","7","8","9">>

Range(f) == {f[i] : i \in DOMAIN f}

\* str.lower() on one character
CharLower(c) ==
  IF \E i \in 1..26 : UpperChars[i] = c
  THEN LowerChars[CHOOSE i \in 1..26 : UpperChars[i] = c]
  ELSE c

\* str.lower()
Lower(s) == [i \in 1..Len(s) |-> CharLower(s[i])]

\* str.upper() on one character, and str.upper()
CharUpper(c) ==
  IF \E i \in 1..26 : LowerChars[i] = c
  THEN UpperChars[CHOOSE i \in 1..26 : LowerChars[i] = c]
  ELSE c

Upper(s) == [i \in 1..Len(s) |-> CharUpper(s[i])]

IsSpace(c) == c \in {" ", "\t", "\n"}
Digits == Range(DigitChars)
IsDigit(c) == c \in Digits
\* \w of the re module: letters, digits and the underscore
WordChars == Range(UpperChars) \cup Range(LowerChars) \cup Range(DigitChars) \cup {"_"}
IsWordChar(c) == c \in WordChars

RECURSIVE LStrip(_)
LStrip(s) == IF s # <<>> /\ IsSpace(Head(s)) THEN LStrip(Tail(s)) ELSE s

RECURSIVE RStrip(_)
RStrip(s) == IF s # <<>> /\ IsSpace(s[Len(s)]) THEN RStrip(SubSeq(s, 1, Len(s) - 1)) ELSE s

\* str.strip()
Strip(s) == RStrip(LStrip(s))

\* sub in s
Contains(s, sub) ==
  \E i \in 1..(Len(s) - Len(sub) + 1) : SubSeq(s, i, i + Len(sub) - 1) = sub

\* s.startswith(p)
StartsWith(s, p) == Len(s) >= Len(p) /\ SubSeq(s, 1, Len(p)) = p

\* s.isdigit(): at least one character and all of them digits
IsDigits(s) == s # <<>> /\ \A i \in 1..Len(s) : IsDigit(s[i])

\* re.search(r"\bword\b", s): word occurs in s between two word boundaries
\* (word starts and ends with a word character)
ContainsWord(s, word) ==
  \E i \in 1..(Len(s) - Len(word) + 1) :
     /\ SubSeq(s, i, i + Len(word) - 1) = word
     /\ (i = 1 \/ ~IsWordChar(s[i - 1]))
     /\ (i + Len(word) - 1 = Len(s) \/ ~IsWordChar(s[i + Len(word)]))

\* str.replace(r"(?i)pat", rep, regex=True): every non-overlapping occurrence
\* of pat, found left to right whatever its casing, is replaced by rep
RECURSIVE ReplaceNoCase(_, _, _)
ReplaceNoCase(s, pat, rep) ==
  IF Len(s) < Len(pat) THEN s
  ELSE IF Lower(SubSeq(s, 1, Len(pat))) = Lower(pat)
       THEN rep \o ReplaceNoCase(SubSeq(s, Len(pat) + 1, Len(s)), pat, rep)
       ELSE <<Head(s)>> \o ReplaceNoCase(Tail(s), pat, rep)

\* int() of a string of decimal digits
RECURSIVE ToInt(_)
ToInt(s) ==
  IF s = <<>> THEN 0
  ELSE 10 * ToInt(SubSeq(s, 1, Len(s) - 1))
       + ((CHOOSE i \in 1..10 : DigitChars[i] = s[Len(s)]) - 1)

\* code point order of the characters that occur in the labels
CodeOrder == <<" ","(",")","+",",","-","/","0","1","2","3","4","5","6","7","8","9","A","B","C","D","E","F","G","H","I","J","K","L","M","N","O","P","Q","R","S","T","U","V","W","X","Y","Z","_","a","b","c","d","e","f","g","h","i","j","k","l","m","n","o","p","q","r","s","t","u","v","w","x","y","z">>
OrdTable == [c \in Range(CodeOrder) |-> CHOOSE i \in 1..Len(CodeOrder) : CodeOrder[i] = c]
Ord(c) == OrdTable[c]

\* the code points of a text, and a number as a one-component sort key
Codes(s) == [i \in 1..Len(s) |-> Ord(s[i])]
Num(n) == <<n>>

\* lexicographic order of two sequences of numbers
RECURSIVE SeqLess(_, _)
SeqLess(a, b) ==
  IF b = <<>> THEN FALSE
  ELSE IF a = <<>> THEN TRUE
  ELSE IF Head(a) = Head(b) THEN SeqLess(Tail(a), Tail(b))
  ELSE Head(a) < Head(b)

\* a < b for Python strings
StrLess(a, b) == SeqLess(Codes(a), Codes(b))

\* ------------------------------------------------- taxonomy and region sets
ALL_ANIMALS_LIST ==
  { <<"A","l","l"," ","a","n","i","m","a","l","s">>, <<"A","l","l"," ","a","n","i","m","a","l">>, <<"A","l","l"," ","l","i","v","e","s","t","o","c","k">>, <<"T","o","t","a","l"," ","a","n","i","m","a","l","s">>, <<"A","n","i","m","a","l","s",","," ","a","l","l">> }

AGGREGATE_LIST ==
  { <<"C","a","m","e","l","s"," ","a","n","d"," ","L","l","a","m","a","s">>, <<"C","a","t","t","l","e">>, <<"M","u","l","e","s"," ","a","n","d"," ","A","s","s","e","s">>, <<"P","o","u","l","t","r","y"," ","B","i","r","d","s">>,
    <<"S","h","e","e","p"," ","a","n","d"," ","G","o","a","t","s">>, <<"S","w","i","n","e">> }

ATOMIC_LIST ==
  { <<"A","s","s","e","s">>, <<"B","u","f","f","a","l","o">>, <<"C","a","m","e","l","s">>, <<"S","w","i","n","e",","," ","b","r","e","e","d","i","n","g">>, <<"S","w","i","n","e",","," ","m","a","r","k","e","t">>, <<"T","u","r","k","e","y","s">>,
    <<"C","a","t","t","l","e",","," ","d","a","i","r","y">>, <<"C","a","t","t","l","e",","," ","n","o","n","-","d","a","i","r","y">>, <<"C","h","i","c","k","e","n","s",","," ","b","r","o","i","l","e","r","s">>, <<"C","h","i","c","k","e","n","s",","," ","l","a","y","e","r","s">>,
    <<"D","u","c","k","s">>, <<"G","o","a","t","s">>, <<"H","o","r","s","e","s">>, <<"S","h","e","e","p">> }

EXCLUDE_ITEMS == { Lower(x) : x \in { <<"C","h","i","c","k","e","n","s">>, <<"M","u","l","e","s"," ","a","n","d"," ","h","i","n","n","i","e","s">> } }

EU ==
  { <<"A","u","s","t","r","i","a">>, <<"B","e","l","g","i","u","m">>, <<"B","u","l","g","a","r","i","a">>, <<"C","r","o","a","t","i","a">>, <<"C","y","p","r","u","s">>, <<"C","z","e","c","h","i","a">>,
    <<"C","z","e","c","h"," ","R","e","p","u","b","l","i","c">>, <<"D","e","n","m","a","r","k">>, <<"E","s","t","o","n","i","a">>, <<"F","i","n","l","a","n","d">>, <<"F","r","a","n","c","e">>, <<"G","e","r","m","a","n","y">>,
    <<"G","r","e","e","c","e">>, <<"H","u","n","g","a","r","y">>, <<"I","r","e","l","a","n","d">>, <<"I","t","a","l","y">>, <<"L","a","t","v","i","a">>, <<"L","i","t","h","u","a","n","i","a">>,
    <<"L","u","x","e","m","b","o","u","r","g">>, <<"M","a","l","t","a">>, <<"N","e","t","h","e","r","l","a","n","d","s">>, <<"P","o","l","a","n","d">>, <<"P","o","r","t","u","g","a","l">>, <<"R","o","m","a","n","i","a">>,
    <<"S","l","o","v","a","k","i","a">>, <<"S","l","o","v","e","n","i","a">>, <<"S","p","a","i","n">>, <<"S","w","e","d","e","n">> }

EEA_PLUS_UK ==
  EU \cup { <<"I","c","e","l","a","n","d">>, <<"L","i","e","c","h","t","e","n","s","t","e","i","n">>, <<"N","o","r","w","a","y">>, <<"U","n","i","t","e","d"," ","K","i","n","g","d","o","m">>, <<"U","K">> }

EUROPE_WIDE ==
  { <<"A","l","b","a","n","i","a">>, <<"A","n","d","o","r","r","a">>, <<"A","r","m","e","n","i","a">>, <<"A","u","s","t","r","i","a">>, <<"A","z","e","r","b","a","i","j","a","n">>, <<"B","e","l","a","r","u","s">>,
    <<"B","e","l","g","i","u","m">>, <<"B","o","s","n","i","a"," ","a","n","d"," ","H","e","r","z","e","g","o","v","i","n","a">>, <<"B","u","l","g","a","r","i","a">>, <<"C","r","o","a","t","i","a">>, <<"C","y","p","r","u","s">>,
    <<"C","z","e","c","h","i","a">>, <<"C","z","e","c","h"," ","R","e","p","u","b","l","i","c">>, <<"D","e","n","m","a","r","k">>, <<"E","s","t","o","n","i","a">>, <<"F","i","n","l","a","n","d">>, <<"F","r","a","n","c","e">>,
    <<"G","e","o","r","g","i","a">>, <<"G","e","r","m","a","n","y">>, <<"G","r","e","e","c","e">>, <<"H","u","n","g","a","r","y">>, <<"I","c","e","l","a","n","d">>, <<"I","r","e","l","a","n","d">>, <<"I","t","a","l","y">>,
    <<"K","a","z","a","k","h","s","t","a","n">>, <<"K","o","s","o","v","o">>, <<"L","a","t","v","i","a">>, <<"L","i","e","c","h","t","e","n","s","t","e","i","n">>, <<"L","i","t","h","u","a","n","i","a">>,
    <<"L","u","x","e","m","b","o","u","r","g">>, <<"M","a","l","t","a">>, <<"M","o","l","d","o","v","a">>, <<"M","o","n","a","c","o">>, <<"M","o","n","t","e","n","e","g","r","o">>, <<"N","e","t","h","e","r","l","a","n","d","s">>,
    <<"N","o","r","t","h"," ","M","a","c","e","d","o","n","i","a">>, <<"N","o","r","w","a","y">>, <<"P","o","l","a","n","d">>, <<"P","o","r","t","u","g","a","l">>, <<"R","o","m","a","n","i","a">>, <<"R","u","s","s","i","a">>,
    <<"S","a","n"," ","M","a","r","i","n","o">>, <<"S","e","r","b","i","a">>, <<"S","l","o","v","a","k","i","a">>, <<"S","l","o","v","e","n","i","a">>, <<"S","p","a","i","n">>, <<"S","w","e","d","e","n">>,
    <<"S","w","i","t","z","e","r","l","a","n","d">>, <<"T","u","r","k","e","y">>, <<"U","k","r","a","i","n","e">>, <<"U","n","i","t","e","d"," ","K","i","n","g","d","o","m">>, <<"U","K">>,
    <<"V","a","t","i","c","a","n"," ","C","i","t","y">> }

EU_LABEL == <<"E","U"," ","(","g","r","o","u","p"," ","t","o","t","a","l",")">>
EEA_LABEL == <<"E","U","/","E","E","A","+","U","K"," ","(","g","r","o","u","p"," ","t","o","t","a","l",")">>
EUROPE_LABEL == <<"E","u","r","o","p","e"," ","(","g","r","o","u","p"," ","t","o","t","a","l",")">>

\* ------------------------------------------------------- the pure functions
\* the test that also asks for exactly four digits
IsYearColOfFourDigits(c) ==
  StartsWith(c, <<"Y">>) /\ Len(c) = 5 /\ IsDigits(SubSeq(c, 2, Len(c)))

\* detect_year_cols
IsYearCol(c) == StartsWith(c, <<"Y">>) /\ IsDigits(SubSeq(c, 2, Len(c)))

detect_year_cols(cols) == SelectSeq(cols, IsYearCol)

\* the three tests as plain substring tests, without the word boundaries
NormalizeBySubstring(e) ==
  LET s == Lower(Strip(e)) IN
  IF Contains(s, <<"s","t","o","c","k">>) THEN "Stocks"
  ELSE IF Contains(s, <<"c","h","4">>) \/ Contains(s, <<"m","e","t","h","a","n","e">>) THEN "CH4"
  ELSE IF Contains(s, <<"n","2","o">>) \/ Contains(s, <<"n","i","t","r","o","u","s">>) THEN "N2O"
  ELSE "None"

\* normalize_element: "Stocks", "CH4", "N2O" or "None"
normalize_element(e) ==
  LET s == Lower(Strip(e)) IN
  IF s = <<"s","t","o","c","k">> \/ s = <<"s","t","o","c","k","s">> \/ ContainsWord(s, <<"s","t","o","c","k">>) THEN "Stocks"
  ELSE IF ContainsWord(s, <<"c","h","4">>) \/ ContainsWord(s, <<"m","e","t","h","a","n","e">>) THEN "CH4"
  ELSE IF ContainsWord(s, <<"n","2","o">>) \/ ContainsWord(s, <<"n","i","t","r","o","u","s">>) THEN "N2O"
  ELSE "None"

\* gwp_pair: the factors (CH4, N2O) in tenths
gwp_pair(name) ==
  LET n == Upper(Strip(name)) IN
  IF n = <<"A","R","4">> THEN <<250, 2980>>
  ELSE IF n = <<"A","R","5">> THEN <<280, 2650>>
  ELSE IF n = <<"A","R","6","_","N","O","C","C","F">> THEN <<272, 2730>>
  ELSE IF n = <<"A","R","6","_","C","C","F">> THEN <<298, 2730>>
  ELSE <<272, 2730>>

\* item_kind
\* the lists looked up with the label as it is spelled, not lower-cased
ItemKindAsSpelled(label) ==
  LET lab == Strip(label) IN
  IF lab \in ALL_ANIMALS_LIST THEN "all_animals"
  ELSE IF lab \in AGGREGATE_LIST THEN "aggregate"
  ELSE IF lab \in ATOMIC_LIST THEN "atomic"
  ELSE "atomic"

\* item_kind
item_kind(label) ==
  LET low == Lower(Strip(label)) IN
  IF low \in { Lower(x) : x \in ALL_ANIMALS_LIST } THEN "all_animals"
  ELSE IF low \in { Lower(x) : x \in AGGREGATE_LIST } THEN "aggregate"
  ELSE IF low \in { Lower(x) : x \in ATOMIC_LIST } THEN "atomic"
  ELSE "atomic"

\* looks_like_cattle
looks_like_cattle(name) ==
  LET n == Lower(name) IN Contains(n, <<"c","a","t","t","l","e">>) \/ Contains(n, <<"b","o","v","i","n","e">>)

\* the weights with the test for cattle or bovine taken before the test for
\* dairy
WeightCattleBeforeDairy(item) ==
  LET il == Lower(item) IN
  IF Contains(il, <<"c","a","t","t","l","e">>) \/ Contains(il, <<"b","o","v","i","n","e">>) THEN 80
  ELSE IF Contains(il, <<"d","a","i","r","y">>) /\ (Contains(il, <<"c","a","t","t","l","e">>) \/ Contains(il, <<"b","o","v","i","n","e">>)) THEN 100
  ELSE IF Contains(il, <<"b","u","f","f","a","l","o">>) THEN 100
  ELSE IF Contains(il, <<"s","h","e","e","p">>) \/ Contains(il, <<"g","o","a","t">>) THEN 10
  ELSE IF Contains(il, <<"p","i","g">>) \/ Contains(il, <<"s","w","i","n","e">>) THEN 30
  ELSE IF Contains(il, <<"p","o","u","l","t","r","y">>) \/ Contains(il, <<"c","h","i","c","k","e","n">>)
          \/ Contains(il, <<"t","u","r","k","e","y">>) \/ Contains(il, <<"d","u","c","k">>) THEN 1
  ELSE IF Contains(il, <<"h","o","r","s","e">>) \/ Contains(il, <<"e","q","u","i","d">>) THEN 80
  ELSE 100

\* default_lsu_weight, in hundredths
default_lsu_weight(item) ==
  LET il == Lower(item) IN
  IF Contains(il, <<"d","a","i","r","y">>) /\ (Contains(il, <<"c","a","t","t","l","e">>) \/ Contains(il, <<"b","o","v","i","n","e">>)) THEN 100
  ELSE IF Contains(il, <<"c","a","t","t","l","e">>) \/ Contains(il, <<"b","o","v","i","n","e">>) THEN 80
  ELSE IF Contains(il, <<"b","u","f","f","a","l","o">>) THEN 100
  ELSE IF Contains(il, <<"s","h","e","e","p">>) \/ Contains(il, <<"g","o","a","t">>) THEN 10
  ELSE IF Contains(il, <<"p","i","g">>) \/ Contains(il, <<"s","w","i","n","e">>) THEN 30
  ELSE IF Contains(il, <<"p","o","u","l","t","r","y">>) \/ Contains(il, <<"c","h","i","c","k","e","n">>)
          \/ Contains(il, <<"t","u","r","k","e","y">>) \/ Contains(il, <<"d","u","c","k">>) THEN 1
  ELSE IF Contains(il, <<"h","o","r","s","e">>) \/ Contains(il, <<"e","q","u","i","d">>) THEN 80
  ELSE 100

\* is_livestock_total_element
is_livestock_total_element(label) ==
  Contains(Lower(label), <<"l","i","v","e","s","t","o","c","k">>) /\ Contains(Lower(label), <<"t","o","t","a","l">>)

\* the truthy spellings of a command-line flag (main, the two flag lines)
ParseFlag(text) == Lower(Strip(text)) \in { <<"1">>, <<"t","r","u","e">>, <<"y","e","s">>, <<"y">> }

\* ------------------------------------------------------------ table helpers
\* one unit of a table Value is 1/Unit
Unit == 100 * 100

cArea == <<"A","r","e","a">>
cItem == <<"I","t","e","m">>
cElement == <<"E","l","e","m","e","n","t">>
cElementNorm == <<"E","l","e","m","e","n","t","N","o","r","m">>
cItemKind == <<"i","t","e","m","_","k","i","n","d">>

Min(a, b) == IF a < b THEN a ELSE b
Max(a, b) == IF a > b THEN a ELSE b

RECURSIVE SumValues(_)
SumValues(rows) == IF rows = <<>> THEN 0 ELSE Head(rows).Value + SumValues(Tail(rows))

RECURSIVE Concat(_)
Concat(frames) == IF frames = <<>> THEN <<>> ELSE Head(frames) \o Concat(Tail(frames))

\* the order of the strings that are not spelled out in characters
KindRank(k) == CASE k = "aggregate" -> 1 [] k = "all_animals" -> 2 [] k = "atomic" -> 3
MetricRank(m) ==
  CASE m = "CH4_CO2e" -> 1 [] m = "LSU" -> 2 [] m = "N2O_CO2e" -> 3
    [] m = "Stocks" -> 4 [] m = "Total_CO2e" -> 5
BoolRank(b) == IF b THEN 1 ELSE 0

\* lexicographic order of two key tuples; a component is Codes(text) or
\* Num(number)
RECURSIVE KeyLess(_, _)
KeyLess(a, b) ==
  IF a = <<>> THEN FALSE
  ELSE IF Head(a) = Head(b) THEN KeyLess(Tail(a), Tail(b))
  ELSE SeqLess(Head(a), Head(b))

\* a stable sort of <<key, row>> pairs by key, as DataFrame.sort_values on
\* several columns
RECURSIVE InsertSorted(_, _)
InsertSorted(sorted, p) ==
  IF sorted = <<>> THEN <<p>>
  ELSE IF KeyLess(p[1], Head(sorted)[1]) THEN <<p>> \o sorted
  ELSE <<Head(sorted)>> \o InsertSorted(Tail(sorted), p)

RECURSIVE SortPairs(_)
SortPairs(pairs) ==
  IF pairs = <<>> THEN <<>>
  ELSE InsertSorted(SortPairs(SubSeq(pairs, 1, Len(pairs) - 1)), pairs[Len(pairs)])

\* a finite set of <<key, element>> pairs in ascending order of the keys
RECURSIVE AscendingPairs(_)
AscendingPairs(P) ==
  IF P = {} THEN <<>>
  ELSE LET any == CHOOSE x \in P : TRUE
       IN InsertSorted(AscendingPairs(P \ {any}), any)

\* the second components of a set of <<key, element>> pairs, keys ascending
Ascending(P) ==
  LET sorted == AscendingPairs(P) IN [i \in 1..Len(sorted) |-> sorted[i][2]]

\* the columns every frame of main carries besides Value (and Metric)
FrameKey(r) ==
  [Area |-> r.Area, Item |-> r.Item, Year |-> r.Year, item_kind |-> r.item_kind,
   is_all_animals |-> r.is_all_animals, is_atomic |-> r.is_atomic]

FrameKeyOrder(k) ==
  <<Codes(k.Area), Codes(k.Item), Num(k.Year), Num(KindRank(k.item_kind)),
    Num(BoolRank(k.is_all_animals)), Num(BoolRank(k.is_atomic))>>

FrameRow(k, v) ==
  [Area |-> k.Area, Item |-> k.Item, Year |-> k.Year, Value |-> v,
   item_kind |-> k.item_kind, is_all_animals |-> k.is_all_animals,
   is_atomic |-> k.is_atomic]

\* frame[["Area","Item","Year","Value","item_kind","is_all_animals","is_atomic"]]
Project(rows) == [i \in 1..Len(rows) |-> FrameRow(rows[i], rows[i].Value)]

\* frame["Metric"] = metric
WithMetric(rows, metric) ==
  [i \in 1..Len(rows) |->
     [Area |-> rows[i].Area, Item |-> rows[i].Item, Year |-> rows[i].Year,
      Metric |-> metric, Value |-> rows[i].Value, item_kind |-> rows[i].item_kind,
      is_all_animals |-> rows[i].is_all_animals, is_atomic |-> rows[i].is_atomic]]

\* one row per key that keeps the value of the key's last row, not the sum
GroupLast(rows) ==
  LET keys == { FrameKey(rows[i]) : i \in 1..Len(rows) }
      ordered == Ascending({ <<FrameKeyOrder(x), x>> : x \in keys })
      Of(k) == LET Same(r) == FrameKey(r) = k IN SelectSeq(rows, Same)
  IN [i \in 1..Len(ordered) |->
        FrameRow(ordered[i], Of(ordered[i])[Len(Of(ordered[i]))].Value)]

\* frame.groupby([Area, Item, Year, item_kind, is_all_animals, is_atomic],
\*               as_index=False)["Value"].sum(): one row per key, keys ascending
GroupSum(rows) ==
  LET keys == { FrameKey(rows[i]) : i \in 1..Len(rows) }
      ordered == Ascending({ <<FrameKeyOrder(x), x>> : x \in keys })
      Of(k) == LET Same(r) == FrameKey(r) = k IN SelectSeq(rows, Same)
  IN [i \in 1..Len(ordered) |-> FrameRow(ordered[i], SumValues(Of(ordered[i])))]

\* the same merge with how="inner": only the keys both frames have
MergeInnerSum(a, b) ==
  LET keys == { FrameKey(a[i]) : i \in 1..Len(a) } \cap { FrameKey(b[i]) : i \in 1..Len(b) }
      ordered == Ascending({ <<FrameKeyOrder(x), x>> : x \in keys })
      Side(f, k) == LET Same(r) == FrameKey(r) = k IN SumValues(SelectSeq(f, Same))
  IN [i \in 1..Len(ordered) |->
        FrameRow(ordered[i], Side(a, ordered[i]) + Side(b, ordered[i]))]

\* pd.merge(ch4e_sum, n2oe_sum, on=keys, how="outer").fillna(0.0) and the sum
\* of its two value columns
MergeOuterSum(a, b) ==
  LET keys == { FrameKey(a[i]) : i \in 1..Len(a) } \cup { FrameKey(b[i]) : i \in 1..Len(b) }
      ordered == Ascending({ <<FrameKeyOrder(x), x>> : x \in keys })
      Side(f, k) == LET Same(r) == FrameKey(r) = k IN SumValues(SelectSeq(f, Same))
  IN [i \in 1..Len(ordered) |->
        FrameRow(ordered[i], Side(a, ordered[i]) + Side(b, ordered[i]))]

\* out.sort_values(["Area","Item","Year","Metric"])
OutOrder(r) == <<Codes(r.Area), Codes(r.Item), Num(r.Year), Num(MetricRank(r.Metric))>>
SortOut(rows) ==
  LET sorted == SortPairs([i \in 1..Len(rows) |-> <<OutOrder(rows[i]), rows[i]>>])
  IN [i \in 1..Len(sorted) |-> sorted[i][2]]

\* group_totals(df_long, members, label)
TotalKey(r) ==
  [Item |-> r.Item, Year |-> r.Year, Metric |-> r.Metric, item_kind |-> r.item_kind,
   is_all_animals |-> r.is_all_animals, is_atomic |-> r.is_atomic]

TotalKeyOrder(k) ==
  <<Codes(k.Item), Num(k.Year), Num(MetricRank(k.Metric)), Num(KindRank(k.item_kind)),
    Num(BoolRank(k.is_all_animals)), Num(BoolRank(k.is_atomic))>>

\* the same totals taken over every area of the table, members or not
TotalsOfAllAreas(df_long, members, label) ==
  LET keys == { TotalKey(df_long[i]) : i \in 1..Len(df_long) }
      ordered == Ascending({ <<TotalKeyOrder(x), x>> : x \in keys })
      Of(k) == LET Same(r) == TotalKey(r) = k IN SelectSeq(df_long, Same)
  IN [i \in 1..Len(ordered) |->
        [Area |-> label, Item |-> ordered[i].Item, Year |-> ordered[i].Year,
         Metric |-> ordered[i].Metric, Value |-> SumValues(Of(ordered[i])),
         item_kind |-> ordered[i].item_kind,
         is_all_animals |-> ordered[i].is_all_animals,
         is_atomic |-> ordered[i].is_atomic]]

group_totals(df_long, members, label) ==
  LET InMembers(r) == r.Area \in members
      sub == SelectSeq(df_long, InMembers)
      keys == { TotalKey(sub[i]) : i \in 1..Len(sub) }
      ordered == Ascending({ <<TotalKeyOrder(x), x>> : x \in keys })
      Of(k) == LET Same(r) == TotalKey(r) = k IN SelectSeq(sub, Same)
  IN [i \in 1..Len(ordered) |->
        [Area |-> label, Item |-> ordered[i].Item, Year |-> ordered[i].Year,
         Metric |-> ordered[i].Metric, Value |-> SumValues(Of(ordered[i])),
         item_kind |-> ordered[i].item_kind,
         is_all_animals |-> ordered[i].is_all_animals,
         is_atomic |-> ordered[i].is_atomic]]

\* the dairy and the other copy of the cattle rows of the LSU frame
SplitCopy(cattle, frac, token) ==
  [i \in 1..Len(cattle) |->
     [Area |-> cattle[i].Area,
      Item |-> ReplaceNoCase(cattle[i].Item, <<"c","a","t","t","l","e">>, token),
      Year |-> cattle[i].Year,
      Stocks |-> (cattle[i].Stocks * frac) \div 100,
      item_kind |-> "atomic", is_all_animals |-> FALSE, is_atomic |-> TRUE]]

\* the share taken as it is given
UnclampedShare(dairy_share) == dairy_share

\* dairy_frac = max(0.0, min(1.0, dairy_share / 100.0)), in hundredths
ClampShare(dairy_share) == Max(0, Min(100, dairy_share))

\* ------------------------------------------------------------------- state
VARIABLES
  pc,         \* the position of main()
  args,       \* the parsed command line
  input,      \* the input file: whether it exists, its columns and its rows
  conf,       \* split_cattle, only_lt, dairy_frac, GWP_CH4, GWP_N2O
  df,         \* the wide table
  year_cols,  \* the detected year columns
  long,       \* the melted table
  stocks,     \* the Stocks frame
  ch4,        \* the CH4 frame (values already in CO2e)
  n2o,        \* the N2O frame (values already in CO2e)
  sb,         \* the Stocks frame of the LSU block, after the optional split
  prepared,   \* the list of metric frames
  out,        \* the output table
  outfile,    \* the output file: whether it was written, and its rows
  exit_msg    \* the message of sys.exit, "" while the run has not exited

vars == <<pc, args, input, conf, df, year_cols, long, stocks, ch4, n2o, sb, prepared,
          out, outfile, exit_msg>>

\* ---------------------------------------------------------- bounded inputs
MaxRows == 2
MaxValue == 2
MaxExtraCols == 2

Y2020 == <<"Y","2","0","2","0">>
Y2021 == <<"Y","2","0","2","1">>

DefaultArgs ==
  [gwp |-> <<"A","R","6","_","N","O","C","C","F">>, split_cattle |-> <<"t","r","u","e">>, dairy_share |-> 35,
   only_livestock_total |-> <<"t","r","u","e">>]

\* a row of the input file: its three labels and one number per other column,
\* the number growing with the column's position
InputRow(area, item, element, cols, v) ==
  [c \in {cArea, cItem, cElement} \cup Range(cols) |->
     IF c = cArea THEN area
     ELSE IF c = cItem THEN item
     ELSE IF c = cElement THEN element
     ELSE (v + (CHOOSE i \in 1..Len(cols) : cols[i] = c) - 1) * Unit]

\* the tables of at most MaxRows rows drawn, in pool order, from a pool of rows
TablesFrom(pool) ==
  UNION { { [i \in 1..n |-> pool[f[i]]] :
              f \in { g \in [1..n -> 1..Len(pool)] :
                        \A i \in 1..n, j \in 1..n : i < j => g[i] <= g[j] } } :
          n \in 0..MaxRows }

\* the rows of a pool: every combination of the labels and the values
PoolOf(areas, items, elements, cols, values) ==
  LET combos == { <<a, it, e, v>> : a \in 1..Len(areas), it \in 1..Len(items),
                                    e \in 1..Len(elements), v \in values }
      Order(c) == <<Num(c[1]), Num(c[2]), Num(c[3]), Num(c[4])>>
      ordered == Ascending({ <<Order(x), x>> : x \in combos })
  IN [i \in 1..Len(ordered) |->
        InputRow(areas[ordered[i][1]], items[ordered[i][2]], elements[ordered[i][3]],
                 cols, ordered[i][4])]

File(cols, rows) ==
  [exists |-> TRUE, columns |-> <<cArea, cItem, cElement>> \o cols, rows |-> rows]

ElementPool ==
  << <<"S","t","o","c","k","s">>, <<" ","s","t","o","c","k"," ">>, <<"S","t","o","c","k","s"," ","(","h","e","a","d",")">>, <<"L","i","v","e"," ","s","t","o","c","k">>,
     <<"L","i","v","e","s","t","o","c","k"," ","t","o","t","a","l"," ","(","E","m","i","s","s","i","o","n","s"," ","C","H","4",")">>, <<"L","i","v","e","s","t","o","c","k"," ","t","o","t","a","l"," ","(","E","m","i","s","s","i","o","n","s"," ","N","2","O",")">>,
     <<"E","n","t","e","r","i","c"," ","f","e","r","m","e","n","t","a","t","i","o","n"," ","(","E","m","i","s","s","i","o","n","s"," ","C","H","4",")">>, <<"M","e","t","h","a","n","e"," ","s","t","o","c","k">>,
     <<"C","H","4","_","e","m","i","s","s","i","o","n","s">>, <<"B","i","o","m","e","t","h","a","n","e">>, <<"N","i","t","r","o","u","s"," ","o","x","i","d","e",","," ","l","i","v","e","s","t","o","c","k"," ","T","O","T","A","L">>,
     <<"M","a","n","u","r","e"," ","N","2","O"," ","a","n","d"," ","C","H","4">>, <<"E","m","i","s","s","i","o","n","s"," ","(","C","O","2","e","q",")">>, <<"T","o","t","a","l"," ","C","H","4",","," ","L","i","v","e","s","t","o","c","k">>,
     <<"L","i","v","e","s","t","o","c","k"," ","N","2","O">> >>

ItemPool ==
  << <<"C","a","t","t","l","e">>, <<"c","a","t","t","l","e">>, <<"C","a","t","t","l","e",","," ","d","a","i","r","y">>, <<"C","a","t","t","l","e",","," ","n","o","n","-","d","a","i","r","y">>, <<"D","a","i","r","y"," ","c","a","t","t","l","e">>,
     <<"B","o","v","i","n","e"," ","a","n","i","m","a","l","s">>, <<"C","a","t","t","l","e"," ","a","n","d"," ","B","u","f","f","a","l","o">>, <<"B","u","f","f","a","l","o">>, <<"S","h","e","e","p">>, <<"S","w","i","n","e">>,
     <<"A","l","l"," ","a","n","i","m","a","l","s">>, <<"C","h","i","c","k","e","n","s">>, <<" ","M","U","L","E","S"," ","A","N","D"," ","H","I","N","N","I","E","S"," ">>, <<"C","h","i","c","k","e","n","s",","," ","b","r","o","i","l","e","r","s">> >>

GwpPool == << <<"A","R","4">>, <<" ","a","r","5"," ">>, <<"A","R","6","_","N","O","C","C","F">>, <<"A","R","6","_","C","C","F">>, <<"A","R","7">>, <<>> >>
FlagPool == << <<"t","r","u","e">>, <<"f","a","l","s","e">>, <<" ","Y","e","s"," ">>, <<"o","n">> >>
SharePool == << -10, 0, 35, 100, 150 >>
ColumnPool == << Y2020, Y2021, <<"Y","2","0">>, <<"X","2","0","2","0">>, <<"Y","2","0","2","0","F">>, <<"Y","e","a","r">>, <<"y","2","0","2","0">>, <<"Y">> >>
KeyColumnPool ==
  << <<cArea, cItem, cElement>>, <<cElement, cArea, cItem>>, <<cArea, cItem>>, <<cElement>> >>

\* the numbers a scenario writes in the first year column of a row
ValuePool == {1, MaxValue}

LT_CH4 == <<"L","i","v","e","s","t","o","c","k"," ","t","o","t","a","l"," ","(","E","m","i","s","s","i","o","n","s"," ","C","H","4",")">>
LT_N2O == <<"L","i","v","e","s","t","o","c","k"," ","t","o","t","a","l"," ","(","E","m","i","s","s","i","o","n","s"," ","N","2","O",")">>
France == <<"F","r","a","n","c","e">>

\* the input file is missing
MissingFileScenarios ==
  { [args |-> DefaultArgs, input |-> [exists |-> FALSE, columns |-> <<>>, rows |-> <<>>]] }

\* the columns of the file vary: which of the required ones are there, and at
\* most MaxExtraCols others, year columns or not
ColumnScenarios ==
  { [args |-> DefaultArgs,
     input |-> [exists |-> TRUE,
                columns |-> KeyColumnPool[k] \o SelectSeq(ColumnPool, LAMBDA c : c \in extra),
                rows |-> << [c \in Range(KeyColumnPool[k]) \cup extra |->
                               InputRow(France, <<"S","h","e","e","p">>, <<"S","t","o","c","k","s">>, ColumnPool, 1)[c]],
                            [c \in Range(KeyColumnPool[k]) \cup extra |->
                               InputRow(<<"N","o","r","w","a","y">>, <<"G","o","a","t","s">>, LT_CH4, ColumnPool, 2)[c]] >>]] :
      k \in 1..Len(KeyColumnPool),
      extra \in { e \in SUBSET Range(ColumnPool) : Cardinality(e) <= MaxExtraCols } }

\* the element labels vary, with the livestock-total filter on and off
ElementScenarios ==
  { [args |-> [DefaultArgs EXCEPT !.only_livestock_total = flag], input |-> File(<<Y2020>>, t)] :
      flag \in {<<"t","r","u","e">>, <<"f","a","l","s","e">>},
      t \in TablesFrom(PoolOf(<<France>>, <<<<"S","h","e","e","p">>>>, ElementPool, <<Y2020>>, {1})) }

\* the gas rows of two items over two years vary, with every GWP name
GasScenarios ==
  { [args |-> [DefaultArgs EXCEPT !.gwp = GwpPool[g]], input |-> File(<<Y2020, Y2021>>, t)] :
      g \in 1..Len(GwpPool),
      t \in TablesFrom(PoolOf(<<France>>, <<<<"C","a","t","t","l","e">>, <<"S","h","e","e","p">>>>, <<LT_CH4, LT_N2O>>,
                              <<Y2020, Y2021>>, ValuePool)) }

\* one Stocks row of every item label, with every split flag and dairy share
ItemScenarios ==
  { [args |-> [DefaultArgs EXCEPT !.split_cattle = FlagPool[fl], !.dairy_share = SharePool[sh]],
     input |-> File(<<Y2020>>, <<InputRow(France, ItemPool[it], <<"S","t","o","c","k","s">>, <<Y2020>>, v)>>)] :
      fl \in 1..Len(FlagPool), sh \in 1..Len(SharePool), it \in 1..Len(ItemPool),
      v \in ValuePool }

\* a herd of cattle and other Stocks rows, with the split on and off
HerdScenarios ==
  { [args |-> [DefaultArgs EXCEPT !.split_cattle = flag], input |-> File(<<Y2020>>, t)] :
      flag \in {<<"t","r","u","e">>, <<"f","a","l","s","e">>},
      t \in TablesFrom(PoolOf(<<France>>,
                              <<<<"C","a","t","t","l","e">>, <<"C","a","t","t","l","e"," ","(","d","a","i","r","y",")">>, <<"B","o","v","i","n","e"," ","a","n","i","m","a","l","s">>, <<"S","h","e","e","p">>>>,
                              <<<<"S","t","o","c","k","s">>>>, <<Y2020>>, ValuePool)) }

\* the areas vary: inside the EU, inside the EEA only, in Europe only, outside
RegionScenarios ==
  { [args |-> DefaultArgs, input |-> File(<<Y2020>>, t)] :
      t \in TablesFrom(PoolOf(<<France, <<"N","o","r","w","a","y">>, <<"S","e","r","b","i","a">>, <<"B","r","a","z","i","l">>>>, <<<<"C","a","t","t","l","e">>>>,
                              <<<<"S","t","o","c","k","s">>, LT_CH4>>, <<Y2020>>, ValuePool)) }

\* one row of an excluded or a kept item next to a Sheep row, whatever the
\* area, the element and the flags
ExclusionScenarios ==
  { [args |-> [gwp |-> g, split_cattle |-> fl, dairy_share |-> 35, only_livestock_total |-> lt],
     input |-> File(<<Y2020>>,
                    << InputRow(a, it, e, <<Y2020>>, 1),
                       InputRow(France, <<"S","h","e","e","p">>, <<"S","t","o","c","k","s">>, <<Y2020>>, 2) >>)] :
      g \in {<<"A","R","4">>, <<"A","R","6","_","N","O","C","C","F">>}, fl \in {<<"t","r","u","e">>, <<"f","a","l","s","e">>}, lt \in {<<"t","r","u","e">>, <<"f","a","l","s","e">>},
      a \in {France, <<"B","r","a","z","i","l">>}, e \in {<<"S","t","o","c","k","s">>, LT_CH4, LT_N2O},
      it \in {<<"C","h","i","c","k","e","n","s">>, <<"c","h","i","c","k","e","n","s"," ">>, <<" ","M","U","L","E","S"," ","A","N","D"," ","H","I","N","N","I","E","S">>, <<"M","u","l","e","s"," ","a","n","d"," ","h","i","n","n","i","e","s">>,
              <<"C","h","i","c","k","e","n","s",","," ","b","r","o","i","l","e","r","s">>, <<"M","u","l","e","s"," ","a","n","d"," ","A","s","s","e","s">>} }

\* item labels that meet each rule of default_lsu_weight, two rules at once,
\* or none
WeightPool ==
  << <<"G","o","a","t","s">>, <<"P","i","g","s">>, <<"S","W","I","N","E">>, <<"P","o","u","l","t","r","y"," ","B","i","r","d","s">>, <<"T","u","r","k","e","y","s">>, <<"D","u","c","k","s">>, <<"H","o","r","s","e","s">>,
     <<"E","q","u","i","d","a","e">>, <<"S","h","e","e","p"," ","a","n","d"," ","p","i","g","s">>, <<"H","o","r","s","e","s"," ","a","n","d"," ","d","u","c","k","s">>, <<"B","u","f","f","a","l","o",","," ","d","a","i","r","y">>, <<"C","a","m","e","l","s">>,
     <<" ","a","l","l"," ","L","I","V","E","S","T","O","C","K"," ">>, <<"p","o","u","l","t","r","y"," ","b","i","r","d","s">> >>

\* one Stocks row of every label of WeightPool
WeightScenarios ==
  { [args |-> DefaultArgs,
     input |-> File(<<Y2020>>, <<InputRow(France, WeightPool[it], <<"S","t","o","c","k","s">>, <<Y2020>>, v)>>)] :
      it \in 1..Len(WeightPool), v \in ValuePool }

Scenarios ==
  MissingFileScenarios \cup ColumnScenarios \cup ElementScenarios \cup GasScenarios
  \cup ItemScenarios \cup HerdScenarios \cup RegionScenarios \cup ExclusionScenarios
  \cup WeightScenarios

NoTable == [columns |-> <<>>, rows |-> <<>>]

Init ==
  /\ \E sc \in Scenarios : args = sc.args /\ input = sc.input
  /\ pc = "start"
  /\ conf = [split_cattle |-> FALSE, only_lt |-> FALSE, dairy_frac |-> 0,
             GWP_CH4 |-> 0, GWP_N2O |-> 0]
  /\ df = NoTable
  /\ year_cols = <<>>
  /\ long = <<>>
  /\ stocks = <<>>
  /\ ch4 = <<>>
  /\ n2o = <<>>
  /\ sb = <<>>
  /\ prepared = <<>>
  /\ out = <<>>
  /\ outfile = [written |-> FALSE, rows |-> <<>>]
  /\ exit_msg = ""

\* ----------------------------------------------------------------- main()
Exit(msg) == pc' = "exit" /\ exit_msg' = msg

\* argparse and the four lines that derive the settings
ParseArgs ==
  /\ pc = "start"
  /\ conf' = [split_cattle |-> ParseFlag(args.split_cattle),
              only_lt |-> ParseFlag(args.only_livestock_total),
              dairy_frac |-> ClampShare(args.dairy_share),
              GWP_CH4 |-> gwp_pair(args.gwp)[1],
              GWP_N2O |-> gwp_pair(args.gwp)[2]]
  /\ pc' = "parsed"
  /\ UNCHANGED <<args, input, df, year_cols, long, stocks, ch4, n2o, sb, prepared, out,
                 outfile, exit_msg>>

\* inp.exists(), and the output folder
OpenInput ==
  /\ pc = "parsed"
  /\ IF ~input.exists
     THEN Exit("Input not found")
     ELSE pc' = "opened" /\ UNCHANGED exit_msg
  /\ UNCHANGED <<args, input, conf, df, year_cols, long, stocks, ch4, n2o, sb, prepared,
                 out, outfile>>

\* pd.read_csv and the required columns
ReadCsv ==
  /\ pc = "opened"
  /\ df' = [columns |-> input.columns, rows |-> input.rows]
  /\ IF {cArea, cItem, cElement} \ Range(input.columns) # {}
     THEN Exit("ERROR: CSV missing columns")
     ELSE pc' = "read" /\ UNCHANGED exit_msg
  /\ UNCHANGED <<args, input, conf, year_cols, long, stocks, ch4, n2o, sb, prepared, out,
                 outfile>>

\* df[c].str.strip() of one row, for c in Area, Item, Element
StripLabels(r) ==
  [c \in DOMAIN r |-> IF c \in {cArea, cItem, cElement} THEN Strip(r[c]) ELSE r[c]]

\* the same test without .str.lower()
NotExcludedAsSpelled(r) == Strip(r[cItem]) \notin EXCLUDE_ITEMS

\* the row is not one of EXCLUDE_ITEMS
NotExcluded(r) == Lower(Strip(r[cItem])) \notin EXCLUDE_ITEMS

\* strip the three label columns and drop the excluded items
CleanAndExclude ==
  /\ pc = "read"
  /\ df' = [df EXCEPT !.rows =
              SelectSeq([i \in 1..Len(df.rows) |-> StripLabels(df.rows[i])], NotExcluded)]
  /\ pc' = "cleaned"
  /\ UNCHANGED <<args, input, conf, year_cols, long, stocks, ch4, n2o, sb, prepared, out,
                 outfile, exit_msg>>

\* detect_year_cols(df.columns)
DetectYears ==
  /\ pc = "cleaned"
  /\ year_cols' = detect_year_cols(df.columns)
  /\ IF year_cols' = <<>>
     THEN Exit("ERROR: No year columns found")
     ELSE pc' = "years" /\ UNCHANGED exit_msg
  /\ UNCHANGED <<args, input, conf, df, long, stocks, ch4, n2o, sb, prepared, out, outfile>>

\* one more column on a row of the wide table
WithColumn(r, col, v) == [c \in DOMAIN r \cup {col} |-> IF c = col THEN v ELSE r[c]]

\* df["ElementNorm"] and the rows it classifies
NormalizeElements ==
  /\ pc = "years"
  /\ LET normed == [i \in 1..Len(df.rows) |->
                      WithColumn(df.rows[i], cElementNorm, normalize_element(df.rows[i][cElement]))]
         Known(r) == r[cElementNorm] # "None"
     IN df' = [columns |-> Append(df.columns, cElementNorm), rows |-> SelectSeq(normed, Known)]
  /\ pc' = "normalized"
  /\ UNCHANGED <<args, input, conf, year_cols, long, stocks, ch4, n2o, sb, prepared, out,
                 outfile, exit_msg>>

\* the row passes the only-livestock-total filter
\* the livestock-total test applied to every row, the Stocks rows too
KeepsOnlyLivestockTotal(r) == is_livestock_total_element(r[cElement])

\* (~mask_gases) | (mask_gases & lt_mask)
KeepsLivestockTotal(r) ==
  LET mask_gases == r[cElementNorm] \in {"CH4", "N2O"}
      lt_mask == is_livestock_total_element(r[cElement])
  IN ~mask_gases \/ (mask_gases /\ lt_mask)

\* if only_lt: keep of the gas rows only the livestock totals
FilterLivestockTotal ==
  /\ pc = "normalized"
  /\ df' = IF conf.only_lt
           THEN [df EXCEPT !.rows = SelectSeq(df.rows, KeepsLivestockTotal)]
           ELSE df
  /\ pc' = "filtered"
  /\ UNCHANGED <<args, input, conf, year_cols, long, stocks, ch4, n2o, sb, prepared, out,
                 outfile, exit_msg>>

\* df["item_kind"], df["is_all_animals"], df["is_atomic"]
ClassifyItems ==
  /\ pc = "filtered"
  /\ df' = [columns |-> Append(df.columns, cItemKind),
            rows |-> [i \in 1..Len(df.rows) |->
                        WithColumn(df.rows[i], cItemKind, item_kind(df.rows[i][cItem]))]]
  /\ pc' = "classified"
  /\ UNCHANGED <<args, input, conf, year_cols, long, stocks, ch4, n2o, sb, prepared, out,
                 outfile, exit_msg>>

\* the rows df.melt makes of one year column, with Year = int(column[1:])
MeltColumn(rows, col) ==
  [i \in 1..Len(rows) |->
     [Area |-> rows[i][cArea], Item |-> rows[i][cItem], Element |-> rows[i][cElement],
      ElementNorm |-> rows[i][cElementNorm], item_kind |-> rows[i][cItemKind],
      is_all_animals |-> rows[i][cItemKind] = "all_animals",
      is_atomic |-> rows[i][cItemKind] = "atomic",
      Year |-> ToInt(SubSeq(col, 2, Len(col))), Value |-> rows[i][col]]]

\* df.melt(id_vars=..., value_vars=year_cols): column after column
Melt ==
  /\ pc = "classified"
  /\ long' = Concat([k \in 1..Len(year_cols) |-> MeltColumn(df.rows, year_cols[k])])
  /\ pc' = "melted"
  /\ UNCHANGED <<args, input, conf, df, year_cols, stocks, ch4, n2o, sb, prepared, out,
                 outfile, exit_msg>>

\* long[long["ElementNorm"] == norm][[...]]
FrameOf(rows, norm) ==
  LET Is(r) == r.ElementNorm = norm IN Project(SelectSeq(rows, Is))

\* frame["Value"] * factor, the factor in tenths
Scaled(rows, factor) ==
  [i \in 1..Len(rows) |-> [rows[i] EXCEPT !.Value = (rows[i].Value * factor) \div 10]]

\* the Stocks block
StocksMetric ==
  /\ pc = "melted"
  /\ stocks' = FrameOf(long, "Stocks")
  /\ prepared' = IF stocks' # <<>>
                 THEN Append(prepared, WithMetric(stocks', "Stocks"))
                 ELSE prepared
  /\ pc' = "stocks"
  /\ UNCHANGED <<args, input, conf, df, year_cols, long, ch4, n2o, sb, out, outfile, exit_msg>>

\* the CH4_CO2e block
CH4Metric ==
  /\ pc = "stocks"
  /\ LET frame == FrameOf(long, "CH4") IN
       IF frame # <<>>
       THEN /\ ch4' = Scaled(frame, conf.GWP_CH4)
            /\ prepared' = Append(prepared, WithMetric(GroupSum(ch4'), "CH4_CO2e"))
       ELSE ch4' = frame /\ UNCHANGED prepared
  /\ pc' = "ch4"
  /\ UNCHANGED <<args, input, conf, df, year_cols, long, stocks, n2o, sb, out, outfile, exit_msg>>

\* the N2O_CO2e block
N2OMetric ==
  /\ pc = "ch4"
  /\ LET frame == FrameOf(long, "N2O") IN
       IF frame # <<>>
       THEN /\ n2o' = Scaled(frame, conf.GWP_N2O)
            /\ prepared' = Append(prepared, WithMetric(GroupSum(n2o'), "N2O_CO2e"))
       ELSE n2o' = frame /\ UNCHANGED prepared
  /\ pc' = "n2o"
  /\ UNCHANGED <<args, input, conf, df, year_cols, long, stocks, ch4, sb, out, outfile, exit_msg>>

\* the Total_CO2e block
TotalMetric ==
  /\ pc = "n2o"
  /\ prepared' = IF ch4 # <<>> \/ n2o # <<>>
                 THEN Append(prepared,
                             WithMetric(MergeOuterSum(GroupSum(ch4), GroupSum(n2o)), "Total_CO2e"))
                 ELSE prepared
  /\ pc' = "total"
  /\ UNCHANGED <<args, input, conf, df, year_cols, long, stocks, ch4, n2o, sb, out, outfile,
                 exit_msg>>

\* the split applied whenever there are cattle rows, the flag not consulted
SplitWithoutFlag(frame, split_cattle, dairy_frac) ==
  LET renamed == [i \in 1..Len(frame) |->
               [Area |-> frame[i].Area, Item |-> frame[i].Item, Year |-> frame[i].Year,
                Stocks |-> frame[i].Value, item_kind |-> frame[i].item_kind,
                is_all_animals |-> frame[i].is_all_animals, is_atomic |-> frame[i].is_atomic]]
      IsCattle(r) == looks_like_cattle(r.Item)
      NotCattle(r) == ~looks_like_cattle(r.Item)
      cattle == SelectSeq(renamed, IsCattle)
      non_cattle == SelectSeq(renamed, NotCattle)
  IN IF cattle # <<>>
     THEN non_cattle \o SplitCopy(cattle, dairy_frac, <<"C","a","t","t","l","e"," ","(","d","a","i","r","y",")">>)
                     \o SplitCopy(cattle, 100 - dairy_frac, <<"C","a","t","t","l","e"," ","(","o","t","h","e","r",")">>)
     ELSE renamed

\* sb: the Stocks frame with Value renamed Stocks, the cattle rows replaced
\* by their dairy and other copies when the split is on
SplitFrame(frame, split_cattle, dairy_frac) ==
  LET renamed == [i \in 1..Len(frame) |->
               [Area |-> frame[i].Area, Item |-> frame[i].Item, Year |-> frame[i].Year,
                Stocks |-> frame[i].Value, item_kind |-> frame[i].item_kind,
                is_all_animals |-> frame[i].is_all_animals, is_atomic |-> frame[i].is_atomic]]
      IsCattle(r) == looks_like_cattle(r.Item)
      NotCattle(r) == ~looks_like_cattle(r.Item)
      cattle == SelectSeq(renamed, IsCattle)
      non_cattle == SelectSeq(renamed, NotCattle)
  IN IF split_cattle /\ cattle # <<>>
     THEN non_cattle \o SplitCopy(cattle, dairy_frac, <<"C","a","t","t","l","e"," ","(","d","a","i","r","y",")">>)
                     \o SplitCopy(cattle, 100 - dairy_frac, <<"C","a","t","t","l","e"," ","(","o","t","h","e","r",")">>)
     ELSE renamed

\* sb["Value"] = sb["Stocks"] * sb["LSU_weight"], the weight in hundredths
LsuFrame(frame) ==
  [i \in 1..Len(frame) |->
     [Area |-> frame[i].Area, Item |-> frame[i].Item, Year |-> frame[i].Year,
      Value |-> (frame[i].Stocks * default_lsu_weight(frame[i].Item)) \div 100,
      item_kind |-> frame[i].item_kind, is_all_animals |-> frame[i].is_all_animals,
      is_atomic |-> frame[i].is_atomic]]

\* the LSU block working on the Stocks frame itself, not on a copy: the
\* relabelled and scaled rows of the split replace the Stocks rows
LSUMetricOnStocksItself ==
  /\ pc = "total"
  /\ IF stocks # <<>>
     THEN /\ sb' = SplitFrame(stocks, conf.split_cattle, conf.dairy_frac)
          /\ prepared' = Append([prepared EXCEPT ![1] =
                                   [i \in 1..Len(sb') |->
                                      [Area |-> sb'[i].Area, Item |-> sb'[i].Item,
                                       Year |-> sb'[i].Year, Metric |-> "Stocks",
                                       Value |-> sb'[i].Stocks, item_kind |-> sb'[i].item_kind,
                                       is_all_animals |-> sb'[i].is_all_animals,
                                       is_atomic |-> sb'[i].is_atomic]]],
                                WithMetric(LsuFrame(sb'), "LSU"))
     ELSE UNCHANGED <<sb, prepared>>
  /\ pc' = "lsu"
  /\ UNCHANGED <<args, input, conf, df, year_cols, long, stocks, ch4, n2o, out, outfile,
                 exit_msg>>

\* the LSU block
LSUMetric ==
  /\ pc = "total"
  /\ IF stocks # <<>>
     THEN /\ sb' = SplitFrame(stocks, conf.split_cattle, conf.dairy_frac)
          /\ prepared' = Append(prepared, WithMetric(LsuFrame(sb'), "LSU"))
     ELSE UNCHANGED <<sb, prepared>>
  /\ pc' = "lsu"
  /\ UNCHANGED <<args, input, conf, df, year_cols, long, stocks, ch4, n2o, out, outfile,
                 exit_msg>>

\* pd.concat(prepared) sorted, without the test for an empty list
ConcatSortUnchecked ==
  /\ pc = "lsu"
  /\ out' = SortOut(Concat(prepared))
  /\ pc' = "sorted"
  /\ UNCHANGED <<args, input, conf, df, year_cols, long, stocks, ch4, n2o, sb, prepared,
                 outfile, exit_msg>>

\* "Nothing to write.", or pd.concat(prepared) sorted
ConcatSort ==
  /\ pc = "lsu"
  /\ IF prepared = <<>>
     THEN Exit("Nothing to write.") /\ UNCHANGED out
     ELSE /\ out' = SortOut(Concat(prepared))
          /\ pc' = "sorted"
          /\ UNCHANGED exit_msg
  /\ UNCHANGED <<args, input, conf, df, year_cols, long, stocks, ch4, n2o, sb, prepared,
                 outfile>>

\* the region totals computed one on top of the other: the rows of a total
\* already made are summed into the next one
RegionFramesCumulative(table) ==
  LET areas_available == { table[i].Area : i \in 1..Len(table) }
      eu == areas_available \cap EU
      eea == areas_available \cap EEA_PLUS_UK
      eur == areas_available \cap EUROPE_WIDE
      eu_frame == IF eu # {} THEN group_totals(table, eu, EU_LABEL) ELSE <<>>
      eea_frame == IF eea # {}
                   THEN group_totals(table \o eu_frame, eea \cup {EU_LABEL}, EEA_LABEL)
                   ELSE <<>>
      eur_frame == IF eur # {}
                   THEN group_totals(table \o eea_frame, eur \cup {EEA_LABEL}, EUROPE_LABEL)
                   ELSE <<>>
  IN (IF eu # {} THEN <<eu_frame>> ELSE <<>>)
     \o (IF eea # {} THEN <<eea_frame>> ELSE <<>>)
     \o (IF eur # {} THEN <<eur_frame>> ELSE <<>>)

\* the three region totals that have a member among the areas of the table
RegionFrames(table) ==
  LET areas_available == { table[i].Area : i \in 1..Len(table) }
      eu == areas_available \cap EU
      eea == areas_available \cap EEA_PLUS_UK
      eur == areas_available \cap EUROPE_WIDE
  IN (IF eu # {} THEN <<group_totals(table, eu, EU_LABEL)>> ELSE <<>>)
     \o (IF eea # {} THEN <<group_totals(table, eea, EEA_LABEL)>> ELSE <<>>)
     \o (IF eur # {} THEN <<group_totals(table, eur, EUROPE_LABEL)>> ELSE <<>>)

\* the group totals appended below the table, the table not sorted again
AppendGroupTotalsUnsorted ==
  /\ pc = "sorted"
  /\ out' = Concat(<<out>> \o RegionFrames(out))
  /\ pc' = "totals"
  /\ UNCHANGED <<args, input, conf, df, year_cols, long, stocks, ch4, n2o, sb, prepared,
                 outfile, exit_msg>>

\* append the group totals and sort again
AppendGroupTotals ==
  /\ pc = "sorted"
  /\ LET add == RegionFrames(out) IN
       out' = IF add # <<>> THEN SortOut(Concat(<<out>> \o add)) ELSE out
  /\ pc' = "totals"
  /\ UNCHANGED <<args, input, conf, df, year_cols, long, stocks, ch4, n2o, sb, prepared,
                 outfile, exit_msg>>

\* out[[...]].to_csv(outp)
WriteCsv ==
  /\ pc = "totals"
  /\ outfile' = [written |-> TRUE, rows |-> out]
  /\ pc' = "done"
  /\ UNCHANGED <<args, input, conf, df, year_cols, long, stocks, ch4, n2o, sb, prepared, out,
                 exit_msg>>

Next ==
  \/ ParseArgs
  \/ OpenInput
  \/ ReadCsv
  \/ CleanAndExclude
  \/ DetectYears
  \/ NormalizeElements
  \/ FilterLivestockTotal
  \/ ClassifyItems
  \/ Melt
  \/ StocksMetric
  \/ CH4Metric
  \/ N2OMetric
  \/ TotalMetric
  \/ LSUMetric
  \/ ConcatSort
  \/ AppendGroupTotals
  \/ WriteCsv

Spec == Init /\ [][Next]_vars
\* ------------------------------------------------------------- properties
REGION_LABELS == {EU_LABEL, EEA_LABEL, EUROPE_LABEL}

\* the output table exists: main() is past pd.concat(prepared)
HasOutput == pc \in {"sorted", "totals", "done"}

\* the per-country rows of the output table
IsCountryRow(r) == r.Area \notin REGION_LABELS
PerCountry == SelectSeq(out, IsCountryRow)

\* the rows of a table for one key and one metric
RowsOf(table, area, item, year, metric) ==
  LET Is(r) == r.Area = area /\ r.Item = item /\ r.Year = year /\ r.Metric = metric
  IN SelectSeq(table, Is)

\* the (Area, Item, Year) keys of a table
KeysOf(table) == { <<table[i].Area, table[i].Item, table[i].Year>> : i \in 1..Len(table) }

\* C1: in the per-country output a key has a Total_CO2e row exactly when it
\* has a CH4_CO2e or an N2O_CO2e row; there is one such row and its Value is
\* CH4_CO2e + N2O_CO2e of the key, a missing side counting 0.
C1_TotalIsSumOfGases ==
  HasOutput =>
    LET rows == PerCountry IN
    \A k \in KeysOf(rows) :
      LET c == RowsOf(rows, k[1], k[2], k[3], "CH4_CO2e")
          n == RowsOf(rows, k[1], k[2], k[3], "N2O_CO2e")
          t == RowsOf(rows, k[1], k[2], k[3], "Total_CO2e")
      IN /\ (t # <<>>) <=> (c # <<>> \/ n # <<>>)
         /\ Len(t) <= 1
         /\ t # <<>> => t[1].Value = SumValues(c) + SumValues(n)

\* a written table in which a key has CH4 rows only and a Total_CO2e row
\* equal to its CH4_CO2e
C1_Witness ==
  /\ pc = "done"
  /\ \E k \in KeysOf(PerCountry) :
       /\ RowsOf(PerCountry, k[1], k[2], k[3], "N2O_CO2e") = <<>>
       /\ RowsOf(PerCountry, k[1], k[2], k[3], "CH4_CO2e") # <<>>
       /\ RowsOf(PerCountry, k[1], k[2], k[3], "Total_CO2e") # <<>>
       /\ RowsOf(PerCountry, k[1], k[2], k[3], "Total_CO2e")[1].Value
            = RowsOf(PerCountry, k[1], k[2], k[3], "CH4_CO2e")[1].Value
       /\ RowsOf(PerCountry, k[1], k[2], k[3], "Total_CO2e")[1].Value > 0

\* the LSU block has run on a Stocks frame that is not empty
AfterLsu == pc \in {"lsu", "sorted", "totals", "done"} /\ stocks # <<>>

\* an item label that contains "cattle" or "bovine", whatever the casing
IsCattleOrBovine(label) ==
  Contains(Lower(label), <<"c","a","t","t","l","e">>) \/ Contains(Lower(label), <<"b","o","v","i","n","e">>)

IsCattleRow(r) == IsCattleOrBovine(r.Item)
IsOtherRow(r) == ~IsCattleOrBovine(r.Item)
CattleStocks == SelectSeq(stocks, IsCattleRow)
OtherStocks == SelectSeq(stocks, IsOtherRow)

\* the places in sb of the two rows the split derives from the j-th cattle
\* row of the Stocks frame: after the others, the dairy copies, then the
\* other copies
DairyAt(j) == Len(OtherStocks) + j
OtherAt(j) == Len(OtherStocks) + Len(CattleStocks) + j

\* C2: with the split enabled every cattle-or-bovine Stocks row with value S
\* is replaced by exactly two rows with Stocks S*f and S*(1-f), which sum to
\* S; f = 0 leaves the dairy row 0 and f = 1 the other row 0; the dairy share
\* is clamped to [0,100], so f lies in [0,1].
C2_SplitConservesStocks ==
  (AfterLsu /\ conf.split_cattle) =>
    LET cattle == CattleStocks
        m == Len(OtherStocks)
        n == Len(cattle)
        f == conf.dairy_frac
    IN /\ f \in 0..100
       /\ f = (IF args.dairy_share < 0 THEN 0
               ELSE IF args.dairy_share > 100 THEN 100
               ELSE args.dairy_share)
       /\ Len(sb) = m + 2 * n
       /\ \A j \in 1..n :
            LET dairy == sb[m + j]
                other == sb[m + n + j]
            IN /\ dairy.Stocks * 100 = cattle[j].Value * f
               /\ other.Stocks * 100 = cattle[j].Value * (100 - f)
               /\ dairy.Stocks + other.Stocks = cattle[j].Value
               /\ dairy.Area = cattle[j].Area /\ other.Area = cattle[j].Area
               /\ dairy.Year = cattle[j].Year /\ other.Year = cattle[j].Year
               /\ f = 0 => dairy.Stocks = 0
               /\ f = 100 => other.Stocks = 0

\* a cattle row split with a dairy share above 100: all of its Stocks in the
\* dairy row, none in the other row
C2_Witness ==
  /\ pc = "done"
  /\ conf.split_cattle
  /\ args.dairy_share > 100
  /\ CattleStocks # <<>>
  /\ sb[DairyAt(1)].Stocks = CattleStocks[1].Value
  /\ sb[DairyAt(1)].Stocks > 0
  /\ sb[OtherAt(1)].Stocks = 0

\* the LSU frame: the last frame of prepared once the LSU block has run
LsuRows == prepared[Len(prepared)]

\* C3: with the split enabled, every cattle-or-bovine Stocks row is replaced
\* by a row labelled "Cattle (dairy)" and a row labelled "Cattle (other)",
\* the labels differ, the dairy row's LSU is its Stocks times 1.0 and the
\* other row's LSU is its Stocks times 0.8.
C3_SplitLabelsSelectWeights ==
  (AfterLsu /\ conf.split_cattle) =>
    LET m == Len(OtherStocks)
        n == Len(CattleStocks)
    IN \A j \in 1..n :
         /\ sb[m + j].Item # sb[m + n + j].Item
         /\ Contains(sb[m + j].Item, <<"C","a","t","t","l","e"," ","(","d","a","i","r","y",")">>)
         /\ Contains(sb[m + n + j].Item, <<"C","a","t","t","l","e"," ","(","o","t","h","e","r",")">>)
         /\ LsuRows[m + j].Value = sb[m + j].Stocks
         /\ LsuRows[m + n + j].Value * 100 = sb[m + n + j].Stocks * 80

\* the three regions: the label of the total and the membership set
Regions == { <<EU_LABEL, EU>>, <<EEA_LABEL, EEA_PLUS_UK>>, <<EUROPE_LABEL, EUROPE_WIDE>> }

\* the region totals have been appended
HasTotals == pc \in {"totals", "done"}

\* the rows of a table for one (Item, Year, Metric)
RowsFor(table, item, year, metric) ==
  LET Is(r) == r.Item = item /\ r.Year = year /\ r.Metric = metric
  IN SelectSeq(table, Is)

RowsOfAreas(table, areas) ==
  LET Is(r) == r.Area \in areas IN SelectSeq(table, Is)

\* C4: for each region and each (Item, Year, Metric) the region total is the
\* sum of the per-country rows of that key whose Area is a member of the
\* region present in the data; there is one total row per key that has such
\* rows, and a region none of whose members is present has no row at all.
C4_RegionTotalIsSum ==
  HasTotals =>
    \A rg \in Regions :
      LET countries == PerCountry
          avail == { a \in { countries[i].Area : i \in 1..Len(countries) } : a \in rg[2] }
          present == RowsOfAreas(countries, avail)
          totals == RowsOfAreas(out, {rg[1]})
          keys == { <<out[i].Item, out[i].Year, out[i].Metric>> : i \in 1..Len(out) }
      IN /\ avail = {} => totals = <<>>
         /\ \A k \in keys :
              LET members == RowsFor(present, k[1], k[2], k[3])
                  total == RowsFor(totals, k[1], k[2], k[3])
              IN IF members = <<>>
                 THEN total = <<>>
                 ELSE Len(total) = 1 /\ total[1].Value = SumValues(members)

\* a written table with rows of France (EU), Norway (EEA only) for one key:
\* the EU total is France's value and the EU/EEA+UK total the sum of the two
C4_Witness ==
  /\ pc = "done"
  /\ \E i, j \in 1..Len(out) :
       /\ out[i].Area = France /\ out[j].Area = <<"N","o","r","w","a","y">>
       /\ out[i].Item = out[j].Item /\ out[i].Year = out[j].Year
       /\ out[i].Metric = "Stocks" /\ out[j].Metric = "Stocks"
       /\ Len(RowsOf(out, France, out[i].Item, out[i].Year, "Stocks")) = 1
       /\ Len(RowsOf(out, <<"N","o","r","w","a","y">>, out[i].Item, out[i].Year, "Stocks")) = 1
       /\ \E e, a \in 1..Len(out) :
            /\ out[e].Area = EU_LABEL /\ out[a].Area = EEA_LABEL
            /\ out[e].Item = out[i].Item /\ out[a].Item = out[i].Item
            /\ out[e].Metric = "Stocks" /\ out[a].Metric = "Stocks"
            /\ out[e].Value = out[i].Value
            /\ out[a].Value = out[i].Value + out[j].Value

\* the rows of the input file after the label columns are stripped and the
\* excluded items dropped
Cleaned == SelectSeq([i \in 1..Len(input.rows) |-> StripLabels(input.rows[i])], NotExcluded)

\* the words of a text: its maximal runs of letters, digits and underscores;
\* cur is the run being read
RECURSIVE WordsFrom(_, _)
WordsFrom(s, cur) ==
  IF s = <<>> THEN (IF cur = <<>> THEN {} ELSE {cur})
  ELSE IF IsWordChar(Head(s)) THEN WordsFrom(Tail(s), Append(cur, Head(s)))
  ELSE (IF cur = <<>> THEN {} ELSE {cur}) \cup WordsFrom(Tail(s), <<>>)

Words(s) == WordsFrom(s, <<>>)

\* the class of an element label, by whole words of the trimmed lower-cased
\* label, the tests taken in the order Stocks, CH4, N2O
ClassByWord(e) ==
  LET s == Lower(Strip(e))
      words == Words(s)
  IN IF s = <<"s","t","o","c","k","s">> \/ <<"s","t","o","c","k">> \in words THEN "Stocks"
     ELSE IF <<"c","h","4">> \in words \/ <<"m","e","t","h","a","n","e">> \in words THEN "CH4"
     ELSE IF <<"n","2","o">> \in words \/ <<"n","i","t","r","o","u","s">> \in words THEN "N2O"
     ELSE "None"

\* df["ElementNorm"] has been computed and no later filter has run
JustNormalized == pc = "normalized"

\* a row of the normalized table with this element label and this class
NormalizedAs(e, class) ==
  \E i \in 1..Len(df.rows) : df.rows[i][cElement] = e /\ df.rows[i][cElementNorm] = class

\* C5 as stated: every label that contains "stock" is classified Stocks,
\* every label that contains "methane" or "ch4" CH4, every label that
\* contains "nitrous" or "n2o" N2O, and a row with any other label is dropped.
C5_SubstringClassifies ==
  JustNormalized =>
    LET cleaned == Cleaned IN
    \A i \in 1..Len(cleaned) :
      LET e == cleaned[i][cElement]
          low == Lower(e)
          stock == Contains(low, <<"s","t","o","c","k">>)
          methane == Contains(low, <<"m","e","t","h","a","n","e">>) \/ Contains(low, <<"c","h","4">>)
          nitrous == Contains(low, <<"n","i","t","r","o","u","s">>) \/ Contains(low, <<"n","2","o">>)
      IN /\ stock => NormalizedAs(e, "Stocks")
         /\ methane => NormalizedAs(e, "CH4")
         /\ nitrous => NormalizedAs(e, "N2O")
         /\ ~(stock \/ methane \/ nitrous) =>
              ~\E j \in 1..Len(df.rows) : df.rows[j][cElement] = e

\* C5 amended: the class is decided on whole words (or the whole label
\* "stock"/"stocks"), first Stocks, then CH4, then N2O; the normalized table
\* is exactly the classified rows, in order, each with its class, and no row
\* without a class is in the long table all the metrics are computed from.
C5_WholeWordClassifies ==
  /\ JustNormalized =>
       LET cleaned == Cleaned IN
       df.rows = SelectSeq([i \in 1..Len(cleaned) |->
                              WithColumn(cleaned[i], cElementNorm,
                                         ClassByWord(cleaned[i][cElement]))],
                           LAMBDA r : r[cElementNorm] # "None")
  /\ pc = "melted" =>
       \A i \in 1..Len(long) :
         LET class == ClassByWord(long[i].Element) IN
         class # "None" /\ long[i].ElementNorm = class

\* a label that contains "stock" only inside "Livestock" is classified CH4,
\* and the row labelled "Stocks (head)" is dropped
C5_Witness ==
  /\ JustNormalized
  /\ \E i \in 1..Len(input.rows) : input.rows[i][cElement] = <<"S","t","o","c","k","s"," ","(","h","e","a","d",")">>
  /\ \E i \in 1..Len(input.rows) : input.rows[i][cElement] = LT_CH4
  /\ Len(df.rows) = 1
  /\ df.rows[1][cElement] = LT_CH4
  /\ df.rows[1][cElementNorm] = "CH4"

\* an item label that is, trimmed and case-folded, one of the two excluded
IsExcludedItem(label) ==
  Lower(Strip(label)) \in { <<"m","u","l","e","s"," ","a","n","d"," ","h","i","n","n","i","e","s">>, <<"c","h","i","c","k","e","n","s">> }

\* main() is past the exclusion of line 112
PastExclusion ==
  \/ pc \in {"cleaned", "years", "normalized", "filtered", "classified", "melted",
             "stocks", "ch4", "n2o", "total", "lsu", "sorted", "totals", "done"}
  \/ pc = "exit" /\ exit_msg \in {"ERROR: No year columns found", "Nothing to write."}

\* the item labels of a table
ItemsOf(rows) == { rows[i].Item : i \in 1..Len(rows) }

\* C6: a row whose Item is, trimmed and case-folded, "mules and hinnies" or
\* "chickens" is removed before the items are classified, whatever its Area,
\* its Element, its values and the flags: exactly these rows leave the table
\* at the exclusion, and no row of any later table, frame or of the written
\* file (per-country or region total) has such an Item.
C6_ExcludedItemsNeverAppear ==
  /\ PastExclusion => \A i \in 1..Len(df.rows) : ~IsExcludedItem(df.rows[i][cItem])
  /\ pc = "cleaned" =>
       /\ cItemKind \notin Range(df.columns)
       /\ Len(df.rows) = Cardinality({ i \in 1..Len(input.rows) :
                                         ~IsExcludedItem(input.rows[i][cItem]) })
  /\ \A label \in ItemsOf(long) \cup ItemsOf(stocks) \cup ItemsOf(ch4) \cup ItemsOf(n2o)
                  \cup ItemsOf(sb) \cup ItemsOf(Concat(prepared)) \cup ItemsOf(out)
                  \cup ItemsOf(outfile.rows) :
       ~IsExcludedItem(label)

\* a written file of a run whose input had a " MULES AND HINNIES" gas row of
\* an area outside Europe, with the filter off: only the other row's lines
C6_Witness ==
  /\ pc = "done"
  /\ ~conf.only_lt
  /\ \E i \in 1..Len(input.rows) :
       /\ input.rows[i][cItem] = <<" ","M","U","L","E","S"," ","A","N","D"," ","H","I","N","N","I","E","S">>
       /\ input.rows[i][cElement] = LT_CH4
       /\ input.rows[i][cArea] = <<"B","r","a","z","i","l">>
  /\ outfile.written
  /\ outfile.rows # <<>>
  /\ \A i \in 1..Len(outfile.rows) : outfile.rows[i].Item = <<"S","h","e","e","p">>

\* the factor pair (CH4, N2O) of a GWP set name, in tenths; the name is read
\* trimmed and without regard to case, any other name is AR6_NOCCF
FactorsOf(name) ==
  LET n == Upper(Strip(name)) IN
  CASE n = <<"A","R","4">> -> <<250, 2980>>
    [] n = <<"A","R","5">> -> <<280, 2650>>
    [] n = <<"A","R","6","_","N","O","C","C","F">> -> <<272, 2730>>
    [] n = <<"A","R","6","_","C","C","F">> -> <<298, 2730>>
    [] OTHER -> <<272, 2730>>

\* the rows of the long table of one key and one gas
RawOf(area, item, year, gas) ==
  LET Is(r) == r.Area = area /\ r.Item = item /\ r.Year = year /\ r.ElementNorm = gas
  IN SelectSeq(long, Is)

\* C7: every key with CH4 rows has exactly one CH4_CO2e row, valued at the
\* sum of the key's raw CH4 values times the CH4 factor of the selected GWP
\* set, and likewise one N2O_CO2e row with the paired N2O factor; a key
\* without rows of the gas has no such row; an unrecognized GWP name selects
\* (27.2, 273.0).
C7_GasRowIsFactorTimesSum ==
  HasOutput =>
    LET countries == PerCountry
        factors == FactorsOf(args.gwp)
    IN
    \A k \in KeysOf(long) \cup KeysOf(countries) :
      \A g \in { <<"CH4", "CH4_CO2e", 1>>, <<"N2O", "N2O_CO2e", 2>> } :
        LET raw == RawOf(k[1], k[2], k[3], g[1])
            rows == RowsOf(countries, k[1], k[2], k[3], g[2])
        IN IF raw = <<>>
           THEN rows = <<>>
           ELSE /\ Len(rows) = 1
                /\ rows[1].Value * 10 = SumValues(raw) * factors[g[3]]

\* a written table of a run with the unknown GWP name "AR7" in which a key
\* has two CH4 rows of different values: one CH4_CO2e row, 27.2 times their sum
C7_Witness ==
  /\ pc = "done"
  /\ args.gwp = <<"A","R","7">>
  /\ \E k \in KeysOf(long) :
       LET raw == RawOf(k[1], k[2], k[3], "CH4")
           rows == RowsOf(PerCountry, k[1], k[2], k[3], "CH4_CO2e")
       IN /\ Len(raw) = 2
          /\ raw[1].Value # raw[2].Value
          /\ Len(rows) = 1
          /\ rows[1].Value * 10 = (raw[1].Value + raw[2].Value) * 272

\* the rows of one metric among the per-country rows
MetricRows(metric) == LET Is(r) == r.Metric = metric IN SelectSeq(PerCountry, Is)

\* C8 as stated: whatever the configuration, an LSU row has a Stocks row of
\* the same (Area, Item, Year).
C8_LsuHasStocksOfSameKey ==
  HasOutput =>
    LET lsu == MetricRows("LSU")
        stk == MetricRows("Stocks")
    IN \A i \in 1..Len(lsu) :
         \E j \in 1..Len(stk) :
           /\ stk[j].Area = lsu[i].Area
           /\ stk[j].Item = lsu[i].Item
           /\ stk[j].Year = lsu[i].Year

\* the item label of an LSU row that comes from a Stocks row of this item
LsuItemsOf(item) ==
  IF conf.split_cattle /\ IsCattleOrBovine(item)
  THEN { ReplaceNoCase(item, <<"c","a","t","t","l","e">>, <<"C","a","t","t","l","e"," ","(","d","a","i","r","y",")">>),
         ReplaceNoCase(item, <<"c","a","t","t","l","e">>, <<"C","a","t","t","l","e"," ","(","o","t","h","e","r",")">>) }
  ELSE { item }

\* C8 amended: an LSU row has a Stocks row of the same Area and Year whose
\* Item is the LSU row's Item or, with the split enabled, the cattle-or-bovine
\* Item the LSU row's Item was relabelled from ("cattle" replaced by
\* "Cattle (dairy)" or "Cattle (other)"); with the split disabled, and for
\* every other item, the key is the same.
C8_LsuComesFromStocksRow ==
  HasOutput =>
    LET lsu == MetricRows("LSU")
        stk == MetricRows("Stocks")
    IN \A i \in 1..Len(lsu) :
         \E j \in 1..Len(stk) :
           /\ stk[j].Area = lsu[i].Area
           /\ stk[j].Year = lsu[i].Year
           /\ lsu[i].Item \in LsuItemsOf(stk[j].Item)

\* a written table of a run with the split on: an LSU row "Cattle (dairy)"
\* and a Stocks row "Cattle", but no Stocks row "Cattle (dairy)"
C8_Witness ==
  /\ pc = "done"
  /\ conf.split_cattle
  /\ <<"C","a","t","t","l","e"," ","(","d","a","i","r","y",")">> \in ItemsOf(MetricRows("LSU"))
  /\ <<"C","a","t","t","l","e">> \in ItemsOf(MetricRows("Stocks"))
  /\ <<"C","a","t","t","l","e"," ","(","d","a","i","r","y",")">> \notin ItemsOf(MetricRows("Stocks"))

\* the fatal conditions of the input file
MissingRequired == {cArea, cItem, cElement} \ Range(input.columns) # {}
NoYearColumn == \A c \in Range(input.columns) : ~IsYearCol(c)

\* C9: a missing input file, a missing required column, no detected year
\* column or an empty list of metric frames ends the run with a message at the
\* test that finds it, and the output file is never written; the file is
\* written only at the end of a run that passed every test, after the region
\* totals were appended, and holds the table with those totals.
C9_NoOutputOnError ==
  /\ ~input.exists => pc \in {"start", "parsed", "exit"}
  /\ (input.exists /\ MissingRequired) => pc \in {"start", "parsed", "opened", "exit"}
  /\ (input.exists /\ ~MissingRequired /\ NoYearColumn) =>
       pc \in {"start", "parsed", "opened", "read", "cleaned", "exit"}
  /\ prepared = <<>> => pc \notin {"sorted", "totals", "done"}
  /\ pc = "exit" =>
       /\ ~outfile.written
       /\ exit_msg = (IF ~input.exists THEN "Input not found"
                      ELSE IF MissingRequired THEN "ERROR: CSV missing columns"
                      ELSE IF NoYearColumn THEN "ERROR: No year columns found"
                      ELSE "Nothing to write.")
  /\ pc # "exit" => exit_msg = ""
  /\ outfile.written <=> pc = "done"
  /\ outfile.written =>
       /\ outfile.rows = out
       /\ outfile.rows # <<>>
       /\ LET areas == { outfile.rows[i].Area : i \in 1..Len(outfile.rows) } IN
            \A rg \in Regions : (\E a \in areas : a \in rg[2]) => rg[1] \in areas

\* a run on a file with all its columns and a row, none of whose rows gives
\* a metric: it ends with "Nothing to write." and no output file
C9_Witness ==
  /\ pc = "exit"
  /\ exit_msg = "Nothing to write."
  /\ input.exists /\ ~MissingRequired /\ ~NoYearColumn
  /\ input.rows # <<>>
  /\ ~outfile.written

\* year_cols has been computed
YearColsKnown ==
  \/ pc \in {"years", "normalized", "filtered", "classified", "melted", "stocks",
             "ch4", "n2o", "total", "lsu", "sorted", "totals", "done"}
  \/ pc = "exit" /\ exit_msg \in {"ERROR: No year columns found", "Nothing to write."}

IsLetter(c) == c \in Range(UpperChars) \cup Range(LowerChars)

RECURSIVE Pow10(_)
Pow10(n) == IF n = 0 THEN 1 ELSE 10 * Pow10(n - 1)

RECURSIVE DecimalValue(_)
DecimalValue(s) ==
  IF s = <<>> THEN 0
  ELSE ((CHOOSE d \in 0..9 : DigitChars[d + 1] = Head(s)) * Pow10(Len(s) - 1))
       + DecimalValue(Tail(s))

\* a column named "Y" followed by one or more digits and nothing else
IsYDigits(c) == Len(c) >= 2 /\ c[1] = "Y" /\ \A i \in 2..Len(c) : IsDigit(c[i])

LsuRules ==
  << << <<{<<"d","a","i","r","y">>}, {<<"c","a","t","t","l","e">>, <<"b","o","v","i","n","e">>}>>, 100 >>,
     << <<{<<"c","a","t","t","l","e">>, <<"b","o","v","i","n","e">>}>>, 80 >>,
     << <<{<<"b","u","f","f","a","l","o">>}>>, 100 >>,
     << <<{<<"s","h","e","e","p">>, <<"g","o","a","t">>}>>, 10 >>,
     << <<{<<"p","i","g">>, <<"s","w","i","n","e">>}>>, 30 >>,
     << <<{<<"p","o","u","l","t","r","y">>, <<"c","h","i","c","k","e","n">>, <<"t","u","r","k","e","y">>, <<"d","u","c","k">>}>>, 1 >>,
     << <<{<<"h","o","r","s","e">>, <<"e","q","u","i","d">>}>>, 80 >> >>

\* the label meets the rule, whatever the casing of the label
MeetsRule(label, rule) ==
  LET low == Lower(label) IN
  \A k \in 1..Len(rule[1]) : \E word \in rule[1][k] : Contains(low, word)

\* the weight of the first rule the label meets, 1.0 when it meets none
WeightByRules(label) ==
  LET met == { k \in 1..Len(LsuRules) : MeetsRule(label, LsuRules[k]) }
  IN IF met = {} THEN 100
     ELSE LsuRules[CHOOSE k \in met : \A other \in met : k <= other][2]

\* C11: the weight of an item label is that of the first rule, in the fixed
\* order, one of whose words the label contains whatever its casing, and 1.0
\* when no rule is met; every row of the LSU frame has the Item of its row of
\* sb and, as Value, that row's (possibly split) Stocks times the weight of
\* that Item, and every LSU row of the output is such a row.
C11_LsuIsStocksTimesRuleWeight ==
  AfterLsu =>
    LET lsu == LsuRows IN
    /\ Len(lsu) = Len(sb)
    /\ \A i \in 1..Len(sb) :
         /\ lsu[i].Area = sb[i].Area /\ lsu[i].Item = sb[i].Item /\ lsu[i].Year = sb[i].Year
         /\ lsu[i].Metric = "LSU"
         /\ lsu[i].Value * 100 = sb[i].Stocks * WeightByRules(sb[i].Item)
    /\ HasOutput =>
         \A r \in Range(MetricRows("LSU")) : \E i \in 1..Len(lsu) : lsu[i] = r

\* a written table of a run with the split off: the LSU of a "Cattle, dairy"
\* row is its Stocks, the weight of the dairy rule and not that of the cattle
\* rule
C11_Witness ==
  /\ pc = "done"
  /\ ~conf.split_cattle
  /\ \E i \in 1..Len(sb) :
       /\ sb[i].Item = <<"C","a","t","t","l","e",","," ","d","a","i","r","y">>
       /\ sb[i].Stocks > 0
       /\ LsuRows[i].Value = sb[i].Stocks
  /\ \E r \in Range(outfile.rows) :
       r.Metric = "LSU" /\ r.Item = <<"C","a","t","t","l","e",","," ","d","a","i","r","y">> /\ r.Value = sb[1].Stocks

\* ------------------------------------------------------------------- C12
\* the text contains the word somewhere, whatever the casing of the text
HasNoCase(text, word) ==
  \E i \in 1..(Len(text) - Len(word) + 1) :
    Lower(SubSeq(text, i, i + Len(word) - 1)) = word

\* the label of a livestock total: "livestock" and "total", in either order
NamesLivestockTotal(label) == HasNoCase(label, <<"l","i","v","e","s","t","o","c","k">>) /\ HasNoCase(label, <<"t","o","t","a","l">>)

\* the rows of the input file the filter must let through, as they stand in
\* the table: not excluded, classified, and, for a gas row with the filter
\* on, labelled in the file as a livestock total
ExpectedAfterFilter ==
  LET Keeps(r) ==
        LET class == normalize_element(r[cElement]) IN
        /\ NotExcluded(r)
        /\ class # "None"
        /\ (class = "Stocks" \/ ~conf.only_lt \/ NamesLivestockTotal(r[cElement]))
      kept == SelectSeq(input.rows, Keeps)
  IN [i \in 1..Len(kept) |->
        WithColumn(StripLabels(kept[i]), cElementNorm, normalize_element(kept[i][cElement]))]

\* the livestock-total filter has just run
JustFiltered == pc = "filtered"

\* C12: after the filter step the table holds, in order, exactly the
\* classified rows that are Stocks rows, or gas rows when the filter is off,
\* or gas rows whose label in the file contains both "livestock" and "total"
\* whatever the casing and the order; and with the filter on no other gas
\* row is in the long table the metrics are computed from.
C12_FilterKeepsLivestockTotals ==
  /\ JustFiltered => df.rows = ExpectedAfterFilter
  /\ (pc = "melted" /\ conf.only_lt) =>
       \A i \in 1..Len(long) :
         long[i].ElementNorm \in {"CH4", "N2O"} => NamesLivestockTotal(long[i].Element)

\* a written table of a run with the filter on: of two CH4 rows of the file
\* only the one labelled "Total CH4, Livestock" reached the long table, and
\* the output has its CH4_CO2e row
C12_Witness ==
  /\ pc = "done"
  /\ conf.only_lt
  /\ Len(input.rows) = 2
  /\ input.rows[1][cElement] = <<"E","n","t","e","r","i","c"," ","f","e","r","m","e","n","t","a","t","i","o","n"," ","(","E","m","i","s","s","i","o","n","s"," ","C","H","4",")">>
  /\ input.rows[2][cElement] = <<"T","o","t","a","l"," ","C","H","4",","," ","L","i","v","e","s","t","o","c","k">>
  /\ Len(long) = 1
  /\ long[1].Element = <<"T","o","t","a","l"," ","C","H","4",","," ","L","i","v","e","s","t","o","c","k">>
  /\ \E r \in Range(outfile.rows) : r.Metric = "CH4_CO2e" /\ r.Value > 0

\* ------------------------------------------------------------------- C13
\* a list with the casing of its labels folded
Folded(list) == { Lower(x) : x \in list }
FoldedAllAnimals == Folded(ALL_ANIMALS_LIST)
FoldedAggregate == Folded(AGGREGATE_LIST)

\* the kind of an item label: its trimmed, case-folded copy looked up in the
\* all-animals list, then in the aggregate list; atomic otherwise
KindByLists(label) ==
  LET folded == Lower(Strip(label)) IN
  CASE folded \in FoldedAllAnimals -> "all_animals"
    [] folded \notin FoldedAllAnimals /\ folded \in FoldedAggregate -> "aggregate"
    [] OTHER -> "atomic"

\* the trimmed Item labels of the input file, as they are spelled there
FileItems == { Strip(r[cItem]) : r \in Range(input.rows) }

\* the kind and the two flags of a row agree with the lists
KindAgrees(r) ==
  /\ r.item_kind = KindByLists(r.Item)
  /\ r.is_all_animals <=> (r.item_kind = "all_animals")
  /\ r.is_atomic <=> (r.item_kind = "atomic")

\* C13 as stated: every row of the output has the kind of its Item by the
\* lists, the two flags that go with the kind, and as Item a label of the
\* file with its casing.
C13_KindByListsItemAsInFile ==
  HasOutput =>
    LET labels == FileItems IN
    \A r \in Range(out) : KindAgrees(r) /\ r.Item \in labels

\* C13 amended: the kind is looked up on the trimmed, case-folded label (all
\* animals, then aggregate, else atomic) and set on every surviving row, the
\* two flags go with the kind, and the Item of an output row is a label of
\* the file with its casing, except on the LSU rows of a cattle split, whose
\* Item is such a label with every "cattle" replaced by "Cattle (dairy)" or
\* "Cattle (other)".
C13_KindByListsItemAsInFileOrSplit ==
  /\ pc = "classified" =>
       LET expected == ExpectedAfterFilter IN
       df.rows = [i \in 1..Len(expected) |->
                    WithColumn(expected[i], cItemKind, KindByLists(expected[i][cItem]))]
  /\ HasOutput =>
       LET labels == FileItems
           relabelled == UNION { LsuItemsOf(l) : l \in labels }
       IN \A r \in Range(out) :
            /\ KindAgrees(r)
            /\ r.Item \in (IF r.Metric = "LSU" THEN relabelled ELSE labels)

\* a written table of a run with the split on, from a file whose Item is
\* "cattle": the Stocks row keeps the label and is an aggregate, the LSU rows
\* are relabelled and atomic
C13_Witness ==
  /\ pc = "done"
  /\ conf.split_cattle
  /\ FileItems = { <<"c","a","t","t","l","e">> }
  /\ \E r \in Range(outfile.rows) :
       /\ r.Metric = "Stocks" /\ r.Item = <<"c","a","t","t","l","e">> /\ r.Area = France
       /\ r.item_kind = "aggregate" /\ ~r.is_atomic /\ ~r.is_all_animals
  /\ \E r \in Range(outfile.rows) :
       /\ r.Metric = "LSU" /\ r.Item = <<"C","a","t","t","l","e"," ","(","d","a","i","r","y",")">> /\ r.Area = France
       /\ r.item_kind = "atomic" /\ r.is_atomic

\* ------------------------------------------------------------------- C14
\* the frames main() prepares from the Stocks, CH4 and N2O frames of this
\* run when the split flag has the given value
PreparedWith(split) ==
  (IF stocks # <<>> THEN <<WithMetric(stocks, "Stocks")>> ELSE <<>>)
  \o (IF ch4 # <<>> THEN <<WithMetric(GroupSum(ch4), "CH4_CO2e")>> ELSE <<>>)
  \o (IF n2o # <<>> THEN <<WithMetric(GroupSum(n2o), "N2O_CO2e")>> ELSE <<>>)
  \o (IF ch4 # <<>> \/ n2o # <<>>
      THEN <<WithMetric(MergeOuterSum(GroupSum(ch4), GroupSum(n2o)), "Total_CO2e")>>
      ELSE <<>>)
  \o (IF stocks # <<>>
      THEN <<WithMetric(LsuFrame(SplitFrame(stocks, split, conf.dairy_frac)), "LSU")>>
      ELSE <<>>)

\* the table main() writes from those frames
WrittenWith(split) ==
  LET sorted == SortOut(Concat(PreparedWith(split)))
      add == RegionFrames(sorted)
  IN IF add # <<>> THEN SortOut(Concat(<<sorted>> \o add)) ELSE sorted

IsNotLsuRow(r) == r.Metric # "LSU"
IsLsuRowOfOtherItem(r) == r.Metric = "LSU" /\ ~IsCattleOrBovine(r.Item)

\* C14: the table a run writes and the table the same run writes with the
\* split flag off have the same Stocks, CH4_CO2e, N2O_CO2e and Total_CO2e
\* rows, region totals included, and the same LSU rows of the items that
\* contain neither "cattle" nor "bovine"; the Stocks rows are the rows of the
\* Stocks frame, label, value and kind untouched.
C14_SplitChangesOnlyCattleLsu ==
  outfile.written =>
    LET unsplit == WrittenWith(FALSE) IN
    /\ SelectSeq(outfile.rows, IsNotLsuRow) = SelectSeq(unsplit, IsNotLsuRow)
    /\ SelectSeq(outfile.rows, IsLsuRowOfOtherItem) = SelectSeq(unsplit, IsLsuRowOfOtherItem)
    /\ \A i \in 1..Len(stocks) :
         \E r \in Range(outfile.rows) :
           /\ r.Metric = "Stocks" /\ r.Area = stocks[i].Area /\ r.Year = stocks[i].Year
           /\ r.Item = stocks[i].Item /\ r.Value = stocks[i].Value
           /\ r.item_kind = stocks[i].item_kind

\* a written table of a run with the split on, of a herd of cattle and
\* sheep: it differs from the table written with the split off, the Stocks
\* row of the cattle is an aggregate labelled "Cattle" and there is an LSU
\* row of the sheep
C14_Witness ==
  /\ outfile.written
  /\ conf.split_cattle
  /\ outfile.rows # WrittenWith(FALSE)
  /\ \E r \in Range(outfile.rows) :
       r.Metric = "Stocks" /\ r.Item = <<"C","a","t","t","l","e">> /\ r.item_kind = "aggregate"
  /\ \E r \in Range(outfile.rows) : r.Metric = "LSU" /\ r.Item = <<"C","a","t","t","l","e"," ","(","d","a","i","r","y",")">>
  /\ \E r \in Range(outfile.rows) : r.Metric = "LSU" /\ r.Item = <<"S","h","e","e","p">>

\* ------------------------------------------------------------------- C15
\* the columns of the output file and the values of its Metric column
OutputColumns ==
  {"Area", "Item", "Year", "Metric", "Value", "item_kind", "is_all_animals", "is_atomic"}
MetricNames == {"Stocks", "CH4_CO2e", "N2O_CO2e", "Total_CO2e", "LSU"}

\* the text of a Metric value
MetricText(m) ==
  CASE m = "Stocks" -> <<"S","t","o","c","k","s">> [] m = "CH4_CO2e" -> <<"C","H","4","_","C","O","2","e">>
    [] m = "N2O_CO2e" -> <<"N","2","O","_","C","O","2","e">> [] m = "Total_CO2e" -> <<"T","o","t","a","l","_","C","O","2","e">>
    [] m = "LSU" -> <<"L","S","U">>

\* row a does not come after row b in the order (Area, Item, Year, Metric),
\* texts compared as strings, years as numbers
NotAfter(a, b) ==
  IF a.Area # b.Area THEN StrLess(a.Area, b.Area)
  ELSE IF a.Item # b.Item THEN StrLess(a.Item, b.Item)
  ELSE IF a.Year # b.Year THEN a.Year < b.Year
  ELSE a.Metric = b.Metric \/ StrLess(MetricText(a.Metric), MetricText(b.Metric))

\* C15: the written table, with or without region totals, is in ascending
\* order of (Area, Item, Year, Metric), every row of it has exactly the
\* eight columns of the output, and its Metric is one of the five names.
C15_WrittenSortedWithSchema ==
  outfile.written =>
    LET rows == outfile.rows IN
    /\ \A i \in 1..(Len(rows) - 1) : NotAfter(rows[i], rows[i + 1])
    /\ \A i \in 1..Len(rows) :
         /\ DOMAIN rows[i] = OutputColumns
         /\ rows[i].Metric \in MetricNames

\* a written table with region totals: the rows of "EU (group total)",
\* appended after the rows of France, stand before them, and the LSU row of
\* a key before its Stocks row
C15_Witness ==
  /\ outfile.written
  /\ \E i \in 1..Len(outfile.rows), j \in 1..Len(outfile.rows) :
       /\ i < j
       /\ outfile.rows[i].Area = EU_LABEL
       /\ outfile.rows[j].Area = France
  /\ \E i \in 1..(Len(outfile.rows) - 1) :
       /\ outfile.rows[i].Area = outfile.rows[i + 1].Area
       /\ outfile.rows[i].Item = outfile.rows[i + 1].Item
       /\ outfile.rows[i].Metric = "CH4_CO2e"
       /\ outfile.rows[i + 1].Metric = "Stocks"

\* ------------------------------------------------------------------- C16
\* the rows of a region of the output table for one (Item, Year, Metric)
RegionRows(label, k) == RowsFor(RowsOfAreas(out, {label}), k[1], k[2], k[3])

\* C16: the member sets are nested and hold no region label; once the totals
\* are appended, a key with an EU row has an EU/EEA+UK row and a Europe row,
\* a key with an EU/EEA+UK row has a Europe row, and the totals of a key grow
\* from EU to EU/EEA+UK to Europe (the values of the countries are not
\* negative); the per-country rows are the rows of the table before the
\* totals were appended, in the same order; and every total is the sum of
\* rows of that earlier table only, never of a row of another region.
C16_RegionsNestedCountriesKept ==
  /\ EU \subseteq EEA_PLUS_UK
  /\ EEA_PLUS_UK \subseteq EUROPE_WIDE
  /\ REGION_LABELS \cap EUROPE_WIDE = {}
  /\ HasTotals =>
       LET before == SortOut(Concat(prepared))
           keys == { <<out[i].Item, out[i].Year, out[i].Metric>> : i \in 1..Len(out) }
       IN /\ PerCountry = before
          /\ \A i \in 1..Len(out) : out[i].Value >= 0
          /\ \A k \in keys :
               LET eu == RegionRows(EU_LABEL, k)
                   eea == RegionRows(EEA_LABEL, k)
                   eur == RegionRows(EUROPE_LABEL, k)
               IN /\ eu # <<>> => eea # <<>>
                  /\ eea # <<>> => eur # <<>>
                  /\ eu # <<>> => SumValues(eu) <= SumValues(eea)
                  /\ eea # <<>> => SumValues(eea) <= SumValues(eur)
                  /\ \A rg \in Regions :
                       SumValues(RegionRows(rg[1], k))
                         = SumValues(RowsFor(RowsOfAreas(before, rg[2]), k[1], k[2], k[3]))

\* a written table with Stocks rows of France (EU) and of Serbia (Europe
\* only): for their key there are the three totals, the EU and EU/EEA+UK
\* totals are France's value and the Europe total is larger
C16_Witness ==
  /\ pc = "done"
  /\ \E f, b \in 1..Len(out) :
       /\ out[f].Area = France /\ out[b].Area = <<"S","e","r","b","i","a">>
       /\ out[f].Metric = "Stocks" /\ out[b].Metric = "Stocks"
       /\ out[f].Item = out[b].Item /\ out[f].Year = out[b].Year
       /\ LET k == <<out[f].Item, out[f].Year, "Stocks">> IN
            /\ Len(RegionRows(EU_LABEL, k)) = 1
            /\ Len(RegionRows(EEA_LABEL, k)) = 1
            /\ Len(RegionRows(EUROPE_LABEL, k)) = 1
            /\ RegionRows(EU_LABEL, k)[1].Value = out[f].Value
            /\ RegionRows(EEA_LABEL, k)[1].Value = out[f].Value
            /\ RegionRows(EUROPE_LABEL, k)[1].Value = out[f].Value + out[b].Value
            /\ out[b].Value > 0
====
